---- MODULE Spec2Model ----
(***************************************************************************)
(* Sharded address search: the Data Node's radix trie and forward store,   *)
(* the multi-term search on top of them, and the Gateway's fan-out,        *)
(* aggregation and status policy.                                          *)
(*                                                                         *)
(* A std::string is a sequence of one-character strings; characters are    *)
(* ordered by their byte value (Ord).  A trie node is a record             *)
(*   [edge_label, address_ids, children]                                   *)
(* whose children field is the sequence of child nodes.                    *)
(***************************************************************************)
EXTENDS Integers, Sequences, FiniteSets, TLC

VARIABLES
  root_,           \* RadixTreeIndex::root_ (the whole tree, nested records)
  term_count_,     \* RadixTreeIndex::term_count_
  inserted,        \* history: the (term, id) pairs passed to insert so far
  forward_index_,  \* ForwardIndex::records_, a function id -> AddressRecord
  dn_state,        \* Data Node lifecycle: "Uninitialized", "Ready", "Failed"
  query_terms,     \* argument of the observed DataNode::search call
  search_results,  \* what that call returned (a sequence of records)
  searched,        \* TRUE once DataNode::search has been called
  stats_,          \* DataNode::stats_
  init_result,     \* what DataNode::initialize returned ("true", "false"), "none" before
  csv_file,        \* the file at data_file_path_: [opens, lines]
  csv_records,     \* what a CSVParser::parse call of its own returned
  csv_kept,        \* history: the lines that gave csv_records
  success_count_,  \* CSVParser::success_count_ of that parser
  error_count_,    \* CSVParser::error_count_ of that parser
  csv_pc,          \* "start" until that parser has parsed, then "parsed"
  connections_,    \* GatewayServer::connections_: the shard_id of each connection
  gw_terms,        \* query_terms of the findAddress request being handled
  payload,         \* what the RPC to each connection is going to yield
  rpc,             \* per connection: "idle", "running" or "settled" (the async task)
  settle_order,    \* history: connection indexes in the order their RPCs settled
  gw_pc,           \* position of the request handler
  shard_results,   \* the DataNodeResult vector (results) being collected / aggregated
  successful_count, \* queryAllDataNodes local
  failed_count,     \* queryAllDataNodes local
  timeout_count,    \* queryAllDataNodes local
  max_results,     \* max_results argument of aggregateAndRankResults
  ranked_results,  \* what aggregateAndRankResults returned
  response,        \* the HTTP response, once sent
  request_body,    \* the body of the POST /api/findAddress request
  main_pc,         \* where main() of the Data Node process is
  g_shutdown_requested, \* the flag the signal handler sets
  g_server,        \* the global server pointer: "null", "running", "shutdown"
  exit_code,       \* what main returned, -1 while it runs
  pending_records, \* the records buildIndexes has still to index
  signals_sent,    \* number of SIGINT / SIGTERM delivered so far
  requests,        \* the Search RPCs accepted: [terms, results]
  in_flight,       \* the accepted RPCs that have not returned, by position
  norm_input,      \* the string first handed to AddressNormalizer::normalize
  norm_text,       \* that string, or what normalize last returned for it
  norm_calls       \* how many times normalize has been applied to it

trieVars == <<root_, term_count_, inserted>>
nodeVars == <<forward_index_, dn_state, query_terms, search_results, searched,
              stats_, init_result>>
csvVars == <<csv_file, csv_records, csv_kept, success_count_, error_count_, csv_pc>>

gwVars == <<connections_, gw_terms, payload, rpc, settle_order, gw_pc, shard_results,
            successful_count, failed_count, timeout_count, max_results,
            ranked_results, response, request_body>>

procVars == <<main_pc, g_shutdown_requested, g_server, exit_code, pending_records,
              signals_sent, requests, in_flight>>

normVars == <<norm_input, norm_text, norm_calls>>

vars == <<root_, term_count_, inserted,
          forward_index_, dn_state, query_terms, search_results, searched,
          stats_, init_result,
          csv_file, csv_records, csv_kept, success_count_, error_count_, csv_pc,
          connections_, gw_terms, payload, rpc, settle_order, gw_pc, shard_results,
          successful_count, failed_count, timeout_count, max_results,
          ranked_results, response, request_body,
          main_pc, g_shutdown_requested, g_server, exit_code, pending_records,
          signals_sent, requests, in_flight,
          norm_input, norm_text, norm_calls>>

----------------------------------------------------------------------------
(* Bounds *)

MaxTermLen == 2     \* longest term / prefix handed to the trie directly
MaxInserts == 3     \* number of RadixTreeIndex::insert calls explored
NumIds == 2         \* distinct address IDs used by the direct trie inserts
MaxRecords == 2     \* rows the CSV parser hands to DataNode::initialize
MaxQueryTerms == 2  \* length of the query term list of DataNode::search
MaxTextLen == 3     \* longest string handed to AddressNormalizer::normalize
MaxNormalizeCalls == 2  \* times normalize is applied to its own result

----------------------------------------------------------------------------
(* Strings *)

\* byte values of the characters the model uses
Ord(c) ==
  CASE c = " " -> 32
    [] c = "," -> 44
    [] c = "1" -> 49
    [] c = "2" -> 50
    [] c = "A" -> 65
    [] c = "B" -> 66
    [] c = "C" -> 67
    [] c = "a" -> 97
    [] c = "b" -> 98
    [] c = "|" -> 124

Min(S) == CHOOSE x \in S : \A y \in S : x <= y

\* std::string::substr(pos) / substr(pos, n), 0-based pos
substr(s, pos, n) == SubSeq(s, pos + 1, IF pos + n > Len(s) THEN Len(s) ELSE pos + n)
substrFrom(s, pos) == SubSeq(s, pos + 1, Len(s))

\* std::string operator<  (lexicographic by byte value)
RECURSIVE StrLess(_, _)
StrLess(a, b) ==
  IF b = <<>> THEN FALSE
  ELSE IF a = <<>> THEN TRUE
  ELSE IF Ord(Head(a)) < Ord(Head(b)) THEN TRUE
  ELSE IF Ord(Head(a)) > Ord(Head(b)) THEN FALSE
  ELSE StrLess(Tail(a), Tail(b))

IsPrefixOf(p, t) == Len(p) <= Len(t) /\ SubSeq(t, 1, Len(p)) = p

Contains(seq, x) == \E i \in 1..Len(seq) : seq[i] = x

\* all sequences over S of length lo..hi
SeqsOf(S, lo, hi) == UNION {[1..n -> S] : n \in lo..hi}

----------------------------------------------------------------------------
(* RadixTreeIndex *)

RadixNode(label, ids) == [edge_label |-> label, address_ids |-> ids, children |-> <<>>]

\* the while loop that measures the common prefix of an edge label and the
\* remaining term
RECURSIVE CommonPrefixLen(_, _)
CommonPrefixLen(edge_label, remaining) ==
  IF edge_label # <<>> /\ remaining # <<>> /\ Head(edge_label) = Head(remaining)
  THEN 1 + CommonPrefixLen(Tail(edge_label), Tail(remaining))
  ELSE 0

\* std::sort of a node's address_ids
RECURSIVE SortIds(_)
SortIds(ids) ==
  IF ids = <<>> THEN <<>>
  ELSE LET m == Min({ids[i] : i \in 1..Len(ids)})
           k == Min({i \in 1..Len(ids) : ids[i] = m})
       IN <<m>> \o SortIds(SubSeq(ids, 1, k - 1) \o SubSeq(ids, k + 1, Len(ids)))

\* std::sort of a child list by edge_label
SortChildrenKeepsOrder(children) == children

RECURSIVE SortChildren(_)
SortChildren(children) ==
  IF children = <<>> THEN <<>>
  ELSE LET k == Min({i \in 1..Len(children) :
                       \A j \in 1..Len(children) :
                          ~StrLess(children[j].edge_label, children[i].edge_label)})
       IN <<children[k]>> \o
          SortChildren(SubSeq(children, 1, k - 1) \o SubSeq(children, k + 1, Len(children)))

\* push_back of a new id unless std::find already finds it, then sort
AddIdWithoutFind(ids, address_id) == SortIds(Append(ids, address_id))

AddId(ids, address_id) ==
  IF Contains(ids, address_id) THEN ids ELSE SortIds(Append(ids, address_id))

\* the edge-split branch of insertHelper: child is replaced by an
\* intermediate node labelled with the common prefix
SplitEdgeLosesOldChild(child, remaining, address_id, common_prefix_len) ==
  LET new_node == RadixNode(substr(child.edge_label, 0, common_prefix_len), <<>>)
  IN IF common_prefix_len = Len(remaining)
     THEN [new_node EXCEPT !.address_ids = AddId(@, address_id)]
     ELSE [new_node EXCEPT !.children =
             SortChildren(<<RadixNode(substrFrom(remaining, common_prefix_len),
                                      <<address_id>>)>>)]

SplitEdge(child, remaining, address_id, common_prefix_len) ==
  LET old_suffix == substrFrom(child.edge_label, common_prefix_len)
      old_child  == [child EXCEPT !.edge_label = old_suffix]
      new_node   == [RadixNode(substr(child.edge_label, 0, common_prefix_len), <<>>)
                       EXCEPT !.children = <<old_child>>]
  IN IF common_prefix_len = Len(remaining)
     THEN [new_node EXCEPT !.address_ids = AddId(@, address_id)]
     ELSE [new_node EXCEPT !.children =
             SortChildren(Append(@, RadixNode(substrFrom(remaining, common_prefix_len),
                                              <<address_id>>)))]

RECURSIVE insertHelper(_, _, _, _)
insertHelper(node, term, address_id, depth) ==
  IF depth >= Len(term)
  THEN [node EXCEPT !.address_ids = AddId(@, address_id)]
  ELSE
    LET remaining == substrFrom(term, depth)
        sharing == {i \in 1..Len(node.children) :
                      CommonPrefixLen(node.children[i].edge_label, remaining) > 0}
    IN IF sharing = {}
       THEN [node EXCEPT !.children =
               SortChildren(Append(@, RadixNode(remaining, <<address_id>>)))]
       ELSE LET i == Min(sharing)      \* the loop stops at the first such child
                child == node.children[i]
                common_prefix_len == CommonPrefixLen(child.edge_label, remaining)
            IN IF common_prefix_len = Len(child.edge_label)
               THEN [node EXCEPT !.children[i] =
                       insertHelper(child, term, address_id, depth + common_prefix_len)]
               ELSE [node EXCEPT !.children[i] =
                       SplitEdge(child, remaining, address_id, common_prefix_len)]

\* collectAllIds accumulates into results: own ids first, then each child in
\* list order
RECURSIVE collectAllIds(_, _)
RECURSIVE CollectChildren(_, _)
RECURSIVE CollectOwnIds(_, _)
CollectOwnIdsAppendsAll(ids, results) == results \o ids

CollectOwnIds(ids, results) ==
  IF ids = <<>> THEN results
  ELSE CollectOwnIds(Tail(ids),
                     IF Contains(results, Head(ids)) THEN results
                     ELSE Append(results, Head(ids)))

CollectChildren(children, results) ==
  IF children = <<>> THEN results
  ELSE CollectChildren(Tail(children), collectAllIds(Head(children), results))

collectAllIds(node, results) ==
  CollectChildren(node.children, CollectOwnIds(node.address_ids, results))

\* the child comparison of searchHelper: "collect", "descend" or "skip"
ChildMatchFirstCharOnly(edge_label, remaining) ==
  IF Head(edge_label) = Head(remaining)
  THEN IF Len(remaining) <= Len(edge_label) THEN "collect" ELSE "descend"
  ELSE "skip"

ChildMatch(edge_label, remaining) ==
  IF Len(remaining) <= Len(edge_label)
  THEN IF substr(edge_label, 0, Len(remaining)) = remaining THEN "collect" ELSE "skip"
  ELSE IF substr(remaining, 0, Len(edge_label)) = edge_label THEN "descend" ELSE "skip"

RECURSIVE searchHelper(_, _, _, _)
searchHelper(node, prefix, results, depth) ==
  IF depth >= Len(prefix)
  THEN collectAllIds(node, results)
  ELSE
    LET remaining == substrFrom(prefix, depth)
        hits == {i \in 1..Len(node.children) :
                   ChildMatch(node.children[i].edge_label, remaining) # "skip"}
    IN IF hits = {} THEN results
       ELSE LET i == Min(hits)
                child == node.children[i]
            IN IF ChildMatch(child.edge_label, remaining) = "collect"
               THEN collectAllIds(child, results)
               ELSE searchHelper(child, prefix, results, depth + Len(child.edge_label))

\* RadixTreeIndex::search on a given tree
search(root, prefix) ==
  IF prefix = <<>> THEN <<>> ELSE searchHelper(root, prefix, <<>>, 0)

\* RadixTreeIndex::insert on a given tree
insert(root, term, address_id) ==
  IF term = <<>> THEN root ELSE insertHelper(root, term, address_id, 0)

Range(seq) == {seq[i] : i \in 1..Len(seq)}

----------------------------------------------------------------------------
(* AddressNormalizer *)

\* std::isspace on the characters of the model: the blank and the tab (the
\* other four control characters are treated as the tab is)
isspace(c) == c \in {" ", "\t"}

\* std::toupper on the characters of the model
toupper(c) ==
  CASE c = "a" -> "A"
    [] c = "b" -> "B"
    [] OTHER -> c

toUpperCase(text) == [i \in 1..Len(text) |-> toupper(text[i])]

trimWhitespace(text) ==
  IF text = <<>> THEN text
  ELSE LET nonspace == {i \in 1..Len(text) : ~isspace(text[i])}
       IN IF nonspace = {} THEN <<>>
          ELSE SubSeq(text, Min(nonspace), CHOOSE i \in nonspace : \A j \in nonspace : j <= i)

RECURSIVE CollapseFrom(_, _, _)
CollapseFrom(text, result, prev_was_space) ==
  IF text = <<>> THEN result
  ELSE IF isspace(Head(text))
       THEN CollapseFrom(Tail(text),
                         IF prev_was_space THEN result ELSE Append(result, " "), TRUE)
       ELSE CollapseFrom(Tail(text), Append(result, Head(text)), FALSE)

collapseWhitespace(text) == CollapseFrom(text, <<>>, FALSE)

normalizeKeepsCase(text) == collapseWhitespace(trimWhitespace(text))

normalize(text) == collapseWhitespace(trimWhitespace(toUpperCase(text)))

----------------------------------------------------------------------------
(* DataNode *)

\* the separator of the composite search keys; data_node.cpp uses the name,
\* the declaring header is not among the sources, so the value is a
\* placeholder character that occurs in no field and no query
KEY_SEPARATOR == <<"|">>

\* DataNode::generateSearchKeys
generateSearchKeys(record) ==
  LET norm_number   == normalize(record.number)
      norm_street   == normalize(record.street)
      norm_city     == normalize(record.city)
      norm_postcode == normalize(record.postcode)
      key1 == norm_number \o KEY_SEPARATOR \o norm_street \o KEY_SEPARATOR \o norm_city
      key2 == norm_number \o KEY_SEPARATOR \o norm_street
      key3 == key1 \o KEY_SEPARATOR \o norm_postcode
  IN (IF norm_number # <<>> /\ norm_street # <<>> /\ norm_city # <<>>
      THEN <<key1>> ELSE <<>>)
     \o (IF norm_number # <<>> /\ norm_street # <<>> THEN <<key2>> ELSE <<>>)
     \o (IF norm_number # <<>> /\ norm_street # <<>> /\ norm_city # <<>>
            /\ norm_postcode # <<>>
         THEN <<key3>> ELSE <<>>)

\* the terms buildIndexes inserts for one record, in insertion order
IndexTerms(record) ==
  generateSearchKeys(record)
  \o (IF record.street # <<>> THEN <<normalize(record.street)>> ELSE <<>>)
  \o (IF record.city # <<>> THEN <<normalize(record.city)>> ELSE <<>>)
  \o (IF record.postcode # <<>> THEN <<normalize(record.postcode)>> ELSE <<>>)
  \o (IF record.number # <<>> THEN <<normalize(record.number)>> ELSE <<>>)

\* the indexes as one value, so that buildIndexes can be folded over records
RECURSIVE InsertTerms(_, _, _)
InsertTerms(idx, terms, record_id) ==
  IF terms = <<>> THEN idx
  ELSE InsertTerms(
         [idx EXCEPT !.root = insert(@, Head(terms), record_id),
                     !.count = IF Head(terms) = <<>> THEN @ ELSE @ + 1,
                     !.ins = IF Head(terms) = <<>> THEN @
                             ELSE @ \cup {<<Head(terms), record_id>>}],
         Tail(terms), record_id)

\* ForwardIndex::insert: records_[id] = record
ForwardInsertDropsRecord(records, id, record) == records

ForwardInsert(records, id, record) ==
  [k \in DOMAIN records \cup {id} |-> IF k = id THEN record ELSE records[k]]

\* ForwardIndex::get
ForwardGet(records, id) == IF id \in DOMAIN records THEN <<records[id]>> ELSE <<>>

\* DataNode::buildIndexes
RECURSIVE buildIndexes(_, _)
buildIndexes(idx, records) ==
  IF records = <<>> THEN idx
  ELSE LET record == Head(records)
           record_id == record.hash
           withForward == [idx EXCEPT !.forward = ForwardInsert(@, record_id, record)]
       IN buildIndexes(InsertTerms(withForward, IndexTerms(record), record_id),
                       Tail(records))

\* split on ',' dropping empty parts (parseQuery, first loop)
RECURSIVE SplitOnComma(_, _, _)
SplitOnComma(query, current, parts) ==
  IF query = <<>>
  THEN IF current # <<>> THEN Append(parts, current) ELSE parts
  ELSE IF Head(query) = ","
       THEN SplitOnComma(Tail(query), <<>>,
                         IF current # <<>> THEN Append(parts, current) ELSE parts)
       ELSE SplitOnComma(Tail(query), Append(current, Head(query)), parts)

\* operator>> on an istringstream: the whitespace-separated tokens
RECURSIVE Tokens(_, _, _)
Tokens(text, current, tokens) ==
  IF text = <<>>
  THEN IF current # <<>> THEN Append(tokens, current) ELSE tokens
  ELSE IF isspace(Head(text))
       THEN Tokens(Tail(text), <<>>,
                   IF current # <<>> THEN Append(tokens, current) ELSE tokens)
       ELSE Tokens(Tail(text), Append(current, Head(text)), tokens)

RECURSIVE JoinWithSpace(_)
JoinWithSpace(tokens) ==
  IF tokens = <<>> THEN <<>>
  ELSE IF Len(tokens) = 1 THEN tokens[1]
  ELSE tokens[1] \o <<" ">> \o JoinWithSpace(Tail(tokens))

\* DataNode::parseQuery
parseQuery(query) ==
  LET raw == SplitOnComma(query, <<>>, <<>>)
      parts == [i \in 1..Len(raw) |-> trimWhitespace(raw[i])]
      tokens == IF Len(parts) >= 1 THEN Tokens(parts[1], <<>>, <<>>) ELSE <<>>
  IN [number   |-> IF tokens # <<>> THEN tokens[1] ELSE <<>>,
      street   |-> IF tokens # <<>> THEN JoinWithSpace(Tail(tokens)) ELSE <<>>,
      city     |-> IF Len(parts) >= 2 THEN parts[2] ELSE <<>>,
      postcode |-> IF Len(parts) >= 3 THEN parts[3] ELSE <<>>]

\* the branch condition of findMatchingIds for a structured address query
IsStructuredQuery(terms) == Len(terms) = 1 /\ Contains(terms[1], ",")

\* the composite keys a structured query is tried with, most specific first
StructuredKeys(term) ==
  LET parsed == parseQuery(term)
      norm_number   == normalize(parsed.number)
      norm_street   == normalize(parsed.street)
      norm_city     == normalize(parsed.city)
      norm_postcode == normalize(parsed.postcode)
  IN (IF norm_number # <<>> /\ norm_street # <<>> /\ norm_city # <<>>
         /\ norm_postcode # <<>>
      THEN <<norm_number \o KEY_SEPARATOR \o norm_street \o KEY_SEPARATOR
               \o norm_city \o KEY_SEPARATOR \o norm_postcode>> ELSE <<>>)
     \o (IF norm_number # <<>> /\ norm_street # <<>> /\ norm_city # <<>>
         THEN <<norm_number \o KEY_SEPARATOR \o norm_street \o KEY_SEPARATOR
                  \o norm_city>> ELSE <<>>)
     \o (IF norm_number # <<>> /\ norm_street # <<>>
         THEN <<norm_number \o KEY_SEPARATOR \o norm_street>> ELSE <<>>)

\* "search with each key and return first match"
FirstMatchLeastSpecific(root, search_keys) ==
  IF search_keys = <<>> THEN <<>>
  ELSE search(root, search_keys[Len(search_keys)])

RECURSIVE FirstMatch(_, _)
FirstMatch(root, search_keys) ==
  IF search_keys = <<>> THEN <<>>
  ELSE LET results == search(root, Head(search_keys))
       IN IF results # <<>> THEN results ELSE FirstMatch(root, Tail(search_keys))

\* one round of the intersection loop: the ids of result_ids that are also
\* among term_ids
IntersectKeepsAll(result_ids, term_ids) == result_ids

Intersect(result_ids, term_ids) == {id \in result_ids : id \in Range(term_ids)}

\* the intersection loop over normalized_terms[i..], with its early break
RECURSIVE IntersectFrom(_, _, _, _)
IntersectFrom(root, normalized_terms, i, result_ids) ==
  IF i > Len(normalized_terms) THEN result_ids
  ELSE LET intersection == Intersect(result_ids, search(root, normalized_terms[i]))
       IN IF intersection = {} THEN intersection
          ELSE IntersectFrom(root, normalized_terms, i + 1, intersection)

\* every sequence that lists the elements of S once: the iteration order of a
\* std::unordered_set is not determined by the program
Orders(S) == {seq \in [1..Cardinality(S) -> S] : Range(seq) = S}

\* DataNode::findMatchingIds: the set of id vectors the call may return (a
\* single one unless the ids come out of an unordered_set)
findMatchingIds(root, terms) ==
  IF terms = <<>> THEN {<<>>}
  ELSE IF IsStructuredQuery(terms)
  THEN {FirstMatch(root, StructuredKeys(terms[1]))}
  ELSE LET normalized_terms == [i \in 1..Len(terms) |-> normalize(terms[i])]
           first_term_ids == search(root, normalized_terms[1])
       IN IF first_term_ids = <<>> \/ Len(normalized_terms) = 1
          THEN {first_term_ids}
          ELSE Orders(IntersectFrom(root, normalized_terms, 2, Range(first_term_ids)))

\* the record lookup loop of DataNode::search
RECURSIVE Materialize(_, _)
Materialize(records, matching_ids) ==
  IF matching_ids = <<>> THEN <<>>
  ELSE ForwardGet(records, Head(matching_ids)) \o Materialize(records, Tail(matching_ids))

----------------------------------------------------------------------------
(* CSVParser *)

DecDigits == {"0", "1", "2", "3", "4", "5", "6", "7", "8", "9"}

HexDigits == DecDigits \cup {"A", "B", "C", "D", "E", "F", "a", "b", "c", "d", "e", "f"}

\* the value of a digit character
DigitValue(c) ==
  CASE c = "0" -> 0 [] c = "1" -> 1 [] c = "2" -> 2 [] c = "3" -> 3 [] c = "4" -> 4
    [] c = "5" -> 5 [] c = "6" -> 6 [] c = "7" -> 7 [] c = "8" -> 8 [] c = "9" -> 9
    [] c \in {"A", "a"} -> 10 [] c \in {"B", "b"} -> 11 [] c \in {"C", "c"} -> 12
    [] c \in {"D", "d"} -> 13 [] c \in {"E", "e"} -> 14 [] c \in {"F", "f"} -> 15

\* length of the longest prefix of text made of characters of chars
RECURSIVE PrefixLenIn(_, _)
PrefixLenIn(text, chars) ==
  IF text # <<>> /\ Head(text) \in chars THEN 1 + PrefixLenIn(Tail(text), chars) ELSE 0

RECURSIVE NumberOf(_, _)
NumberOf(digits, base) ==
  IF digits = <<>> THEN 0
  ELSE base * NumberOf(SubSeq(digits, 1, Len(digits) - 1), base)
       + DigitValue(digits[Len(digits)])

RECURSIVE Pow10(_)
Pow10(n) == IF n = 0 THEN 1 ELSE 10 * Pow10(n - 1)

\* what strtod and strtoull do first: skip white space, take a sign
SkipSpace(text) == substrFrom(text, PrefixLenIn(text, {" "}))

SignOf(text) == IF text # <<>> /\ Head(text) = "-" THEN -1 ELSE 1

SkipSign(text) == IF text # <<>> /\ Head(text) \in {"+", "-"} THEN Tail(text) ELSE text

\* std::stod on the characters of the model (digits, sign, point, blank and
\* letters that begin no number): the longest leading decimal number is
\* converted and whatever follows it is ignored; std::invalid_argument
\* (ok = FALSE) when there is no leading number.  The value is
\* mantissa / 10^scale.
stod(text) ==
  LET body == SkipSign(SkipSpace(text))
      int_len == PrefixLenIn(body, DecDigits)
      after == substrFrom(body, int_len)
      frac_len == IF after # <<>> /\ Head(after) = "."
                  THEN PrefixLenIn(Tail(after), DecDigits) ELSE 0
  IN IF int_len + frac_len = 0
     THEN [ok |-> FALSE, mantissa |-> 0, scale |-> 0]
     ELSE [ok |-> TRUE,
           mantissa |-> SignOf(SkipSpace(text))
                        * NumberOf(substr(body, 0, int_len)
                                   \o (IF frac_len > 0
                                       THEN substr(Tail(after), 0, frac_len)
                                       ELSE <<>>), 10),
           scale |-> frac_len]

\* the digits std::stoull(text, nullptr, 16) converts: after white space, a
\* sign and an optional 0x, the longest run of hexadecimal digits
HexBody(text) ==
  LET body == SkipSign(SkipSpace(text))
  IN IF /\ Len(body) >= 3
        /\ body[1] = "0"
        /\ body[2] \in {"x", "X"}
        /\ body[3] \in HexDigits
     THEN substrFrom(body, 2) ELSE body

\* std::stoull(text, nullptr, 16): std::invalid_argument when no digit leads,
\* std::out_of_range when the digits need more than 64 bits; what follows the
\* digits is ignored.  A leading minus negates modulo 2^64: the value is then
\* given here as the negative number it is congruent to.
stoull16(text) ==
  LET body == HexBody(text)
      len == PrefixLenIn(body, HexDigits)
      digits == substr(body, 0, len)
      significant == substrFrom(digits, PrefixLenIn(digits, {"0"}))
  IN IF len = 0 \/ Len(significant) > 16
     THEN [ok |-> FALSE, value |-> 0]
     ELSE [ok |-> TRUE, value |-> SignOf(SkipSpace(text)) * NumberOf(significant, 16)]

\* CSVParser::validateCoordinates
validateCoordinates(lon, lat) ==
  /\ lon.mantissa >= -180 * Pow10(lon.scale)
  /\ lon.mantissa <= 180 * Pow10(lon.scale)
  /\ lat.mantissa >= -90 * Pow10(lat.scale)
  /\ lat.mantissa <= 90 * Pow10(lat.scale)

\* CSVParser::splitCSVLine
RECURSIVE SplitFields(_, _, _, _)
SplitFields(line, field, in_quotes, fields) ==
  IF line = <<>> THEN Append(fields, field)
  ELSE IF Head(line) = "\""
       THEN SplitFields(Tail(line), field, ~in_quotes, fields)
       ELSE IF Head(line) = "," /\ ~in_quotes
            THEN SplitFields(Tail(line), <<>>, in_quotes, Append(fields, field))
            ELSE SplitFields(Tail(line), Append(field, Head(line)), in_quotes, fields)

splitCSVLine(line) == SplitFields(line, <<>>, FALSE, <<>>)

\* CSVParser::trim
trim(str) ==
  LET start == PrefixLenIn(str, {" "})
      RECURSIVE EndOf(_)
      EndOf(end) == IF end > start /\ isspace(str[end]) THEN EndOf(end - 1) ELSE end
  IN substr(str, start, EndOf(Len(str)) - start)

nullopt == [has_value |-> FALSE]

\* CSVParser::parseRecord
parseRecord(line) ==
  LET fields == splitCSVLine(line)
  IN IF Len(fields) < 11 THEN nullopt
     ELSE LET longitude == stod(fields[1])
              latitude == stod(fields[2])
              hash_str == fields[11]
              hash == IF hash_str # <<>> THEN stoull16(hash_str)
                      ELSE [ok |-> TRUE, value |-> 0]
          IN IF ~longitude.ok THEN nullopt
             ELSE IF ~latitude.ok THEN nullopt
             ELSE IF ~validateCoordinates(longitude, latitude) THEN nullopt
             ELSE IF ~hash.ok THEN nullopt
             ELSE [has_value |-> TRUE,
                   value |-> [longitude |-> longitude, latitude |-> latitude,
                              hash |-> hash.value, number |-> fields[3],
                              street |-> fields[4], unit |-> fields[5],
                              city |-> fields[6], postcode |-> fields[9]]]

\* the file at a path: whether it opens, and its lines
NoFile == [opens |-> FALSE, lines |-> <<>>]

FileOf(lines) == [opens |-> TRUE, lines |-> lines]

\* the loop of CSVParser::parse over the lines after the header
RECURSIVE ParseLines(_, _)
ParseLines(lines, acc) ==
  IF lines = <<>> THEN acc
  ELSE IF trim(Head(lines)) = <<>> THEN ParseLines(Tail(lines), acc)
  ELSE LET record == parseRecord(Head(lines))
       IN ParseLines(Tail(lines),
            IF record.has_value
            THEN [acc EXCEPT !.records = Append(@, record.value),
                             !.kept = Append(@, Head(lines)),
                             !.success_count = @ + 1]
            ELSE [acc EXCEPT !.error_count = @ + 1])

\* the lines of a file that CSVParser::parse treats as data
DataLinesWithHeader(lines) == lines

DataLines(lines) == IF lines = <<>> THEN <<>> ELSE Tail(lines)

\* CSVParser::parse on a parser whose counters are success_count, error_count;
\* kept lists the lines that gave the records
parse(file, success_count, error_count) ==
  IF ~file.opens
  THEN [records |-> <<>>, kept |-> <<>>,
        success_count |-> success_count, error_count |-> error_count]
  ELSE ParseLines(DataLines(file.lines),
                  [records |-> <<>>, kept |-> <<>>,
                   success_count |-> 0, error_count |-> 0])

----------------------------------------------------------------------------
(* GatewayServer: scoring, deduplication, ranking *)

npos == -1

\* std::string::find(term): the first 0-based position of term, or npos
Find(field, term) ==
  LET positions == {i \in 0..(Len(field) - Len(term)) :
                      SubSeq(field, i + 1, i + Len(term)) = term}
  IN IF positions = {} THEN npos ELSE Min(positions)

RECURSIVE SumOver(_, _)
SumOver(f, n) == IF n = 0 THEN 0 ELSE f[n] + SumOver(f, n - 1)

\* GatewayServer::isDuplicate
isDuplicateComparesUnit(a, b) ==
  /\ a.number = b.number
  /\ a.street = b.street
  /\ a.unit = b.unit
  /\ a.city = b.city
  /\ a.postcode = b.postcode

isDuplicate(a, b) ==
  /\ a.number = b.number
  /\ a.street = b.street
  /\ a.city = b.city
  /\ a.postcode = b.postcode

\* the per-term position bonuses of calculateRelevanceScore
TermBonus(record, term) ==
  (IF Find(record.street, term) # npos
   THEN IF Find(record.street, term) = 0 THEN 15 ELSE 10
   ELSE 0)
  + (IF Find(record.city, term) # npos
     THEN IF Find(record.city, term) = 0 THEN 8 ELSE 5
     ELSE 0)
  + (IF Find(record.postcode, term) # npos THEN 3 ELSE 0)
  + (IF Find(record.number, term) # npos THEN 5 ELSE 0)

\* GatewayServer::calculateRelevanceScore.  The code computes the double
\*   matching_terms / |terms| * 100 + bonuses + 2 * completeness;
\* the value here is that score multiplied by |terms| (by 1 for an empty
\* term list), an integer.  All scores compared in one aggregation use the
\* same term list, so every comparison has the outcome it has in the code.
calculateRelevanceScore(record, terms) ==
  LET n == Len(terms)
      scale == IF n = 0 THEN 1 ELSE n
      fields == <<record.street, record.city, record.postcode, record.number>>
      matching_terms ==
        Cardinality({i \in 1..n : \E k \in 1..4 : Find(fields[k], terms[i]) # npos})
      bonus == SumOver([i \in 1..n |-> TermBonus(record, terms[i])], n)
      completeness ==
        Cardinality({f \in {"number", "street", "unit", "city", "postcode"} :
                       record[f] # <<>>})
  IN 100 * matching_terms + scale * (bonus + 2 * completeness)

\* one pass of the inner loop of aggregateAndRankResults: record, returned by
\* shard shard_id, meets the records collected so far
AddScoredReplacesOnTie(scored_records, record, shard_id, score) ==
  LET dups == {k \in 1..Len(scored_records) :
                 isDuplicate(scored_records[k].record, record)}
      entry == [record |-> record, shard_id |-> shard_id, relevance_score |-> score]
  IN IF dups = {} THEN Append(scored_records, entry)
     ELSE LET k == Min(dups)
          IN IF score >= scored_records[k].relevance_score
             THEN [scored_records EXCEPT ![k] = entry]
             ELSE scored_records

AddScored(scored_records, record, shard_id, score) ==
  LET dups == {k \in 1..Len(scored_records) :
                 isDuplicate(scored_records[k].record, record)}
      entry == [record |-> record, shard_id |-> shard_id, relevance_score |-> score]
  IN IF dups = {} THEN Append(scored_records, entry)
     ELSE LET k == Min(dups)      \* the scan breaks at the first duplicate
          IN IF score > scored_records[k].relevance_score
             THEN [scored_records EXCEPT ![k] = entry]
             ELSE scored_records

RECURSIVE AddRecords(_, _, _, _)
AddRecords(scored_records, records, shard_id, terms) ==
  IF records = <<>> THEN scored_records
  ELSE AddRecords(AddScored(scored_records, Head(records), shard_id,
                            calculateRelevanceScore(Head(records), terms)),
                  Tail(records), shard_id, terms)

\* "if (!result.success) continue": whether a DataNodeResult contributes
ContributesAlways(result) == TRUE

Contributes(result) == result.success

\* the outer loop of aggregateAndRankResults: the deduplicated scored records
RECURSIVE CollectScored(_, _, _)
CollectScored(scored_records, rs, terms) ==
  IF rs = <<>> THEN scored_records
  ELSE CollectScored(
         IF Contributes(Head(rs))
         THEN AddRecords(scored_records, Head(rs).records, Head(rs).shard_id, terms)
         ELSE scored_records,
         Tail(rs), terms)

\* ScoredAddressRecord::operator<
ScoredLess(a, b) == a.relevance_score > b.relevance_score

\* std::sort(scored_records): for the at most 16 elements an aggregation of
\* the model has, the library's sort is its insertion sort, which keeps equal
\* elements in their order
RECURSIVE InsertSorted(_, _)
InsertSorted(sorted, x) ==
  IF sorted = <<>> THEN <<x>>
  ELSE IF ScoredLess(x, sorted[Len(sorted)])
       THEN Append(InsertSorted(SubSeq(sorted, 1, Len(sorted) - 1), x), sorted[Len(sorted)])
       ELSE Append(sorted, x)

RECURSIVE SortScored(_)
SortScored(scored_records) ==
  IF scored_records = <<>> THEN <<>>
  ELSE InsertSorted(SortScored(SubSeq(scored_records, 1, Len(scored_records) - 1)),
                    scored_records[Len(scored_records)])

\* vector::resize(max_results) when the vector is longer
Truncate(scored_records, max) ==
  IF Len(scored_records) > max THEN SubSeq(scored_records, 1, max) ELSE scored_records

\* sort, then keep the top max
RankTruncatesFirst(scored_records, max) == SortScored(Truncate(scored_records, max))

Rank(scored_records, max) == Truncate(SortScored(scored_records), max)

\* GatewayServer::aggregateAndRankResults
aggregateAndRankResults(rs, terms, max) == Rank(CollectScored(<<>>, rs, terms), max)

----------------------------------------------------------------------------
(* GatewayServer: fan-out and the findAddress handler *)

\* no response sent yet
NoResponse ==
  [status |-> 0, results |-> <<>>, result_count |-> 0,
   successful_nodes |-> 0, failed_nodes |-> 0, error |-> ""]

\* the max_results the findAddress handler passes
kHttpMaxResults == 5

\* "gRPC timeout after " + elapsed + "ms"
TimeoutMessage == "gRPC timeout after 5000ms"

\* GatewayServer::queryDataNode: the DataNodeResult for one connection, given
\* how its RPC ends
queryDataNode(shard_id, p) ==
  [shard_id |-> shard_id,
   success |-> p.kind = "ok",
   error_message |->
     CASE p.kind = "ok" -> ""
       [] p.kind = "timeout" -> TimeoutMessage
       [] p.kind = "rpc_error" -> "gRPC error: Connection timeout (code: 14)"
       [] OTHER -> "Exception: what",
   records |-> IF p.kind = "ok" THEN p.records ELSE <<>>]

\* the failed result the collecting loop builds when future.get() throws
FutureExceptionResultNoShard(shard_id) ==
  [shard_id |-> -1, success |-> FALSE,
   error_message |-> "Future exception: what", records |-> <<>>]

FutureExceptionResult(shard_id) ==
  [shard_id |-> shard_id, success |-> FALSE,
   error_message |-> "Future exception: what", records |-> <<>>]

\* error_message.find("timeout") != npos || find("DEADLINE_EXCEEDED") != npos,
\* over the messages a result of the model can carry
IsTimeoutMessage(error_message) ==
  error_message \in {TimeoutMessage, "gRPC error: Connection timeout (code: 14)"}

\* futures[i].get() returns only once the task of future i has finished
FutureReadyAlways(tasks, i) == TRUE

FutureReady(tasks, i) == tasks[i] = "settled"

\* the future the collecting loop takes next: futures[i] for i = 0, 1, ...
\* (1-based here), given how many results it has collected and the order in
\* which the tasks finished
NextFutureAnySettled(collected, order) ==
  IF collected < Len(order) THEN order[collected + 1] ELSE 0

NextFuture(collected, order) == collected + 1

\* a request body: whether it is JSON, whether it has "address", whether that
\* is a string, and its text
Body(valid_json, has_address, is_string, address) ==
  [valid_json |-> valid_json, has_address |-> has_address,
   is_string |-> is_string, address |-> address]

NoBody == Body(FALSE, FALSE, FALSE, <<>>)

\* a response that carries only an error
ErrorResponse(status, error) ==
  [status |-> status, results |-> <<>>, result_count |-> 0,
   successful_nodes |-> 0, failed_nodes |-> 0, error |-> error]

\* the query terms the handler makes of the address keyword
QueryTermsOf(address_keyword) ==
  IF Contains(address_keyword, ",") THEN <<address_keyword>>
  ELSE Tokens(address_keyword, <<>>, <<>>)

\* the findAddress handler up to the fan-out: the response it returns at
\* once, or NoResponse when it goes on to query the data nodes.  s() of a
\* value that is not a string throws, and the handler's catch answers 500.
EarlyResponse(body) ==
  IF ~body.valid_json THEN ErrorResponse(400, "Invalid JSON in request body")
  ELSE IF ~body.has_address
  THEN ErrorResponse(400, "Missing 'address' field in request body")
  ELSE IF ~body.is_string THEN ErrorResponse(500, "Internal server error")
  ELSE IF body.address = <<>> THEN ErrorResponse(400, "Address keyword cannot be empty")
  ELSE IF QueryTermsOf(body.address) = <<>>
  THEN ErrorResponse(400, "Address keyword must contain at least one term")
  ELSE NoResponse

\* the status the handler answers with
StatusCodeSwapped(successful_nodes, failed_nodes) ==
  IF failed_nodes > 0 /\ successful_nodes > 0 THEN 503
  ELSE IF failed_nodes > 0 THEN 207
  ELSE 200

StatusCode(successful_nodes, failed_nodes) ==
  IF failed_nodes > 0 /\ successful_nodes = 0 THEN 503
  ELSE IF failed_nodes > 0 THEN 207
  ELSE 200

----------------------------------------------------------------------------
(* DataNode::Statistics *)

\* the statistics the constructor sets
ZeroStatistics ==
  [total_records |-> 0, radix_tree_memory |-> 0, forward_index_size |-> 0,
   load_time |-> 0]

\* RadixTreeIndex::getMemoryUsage, in units of one per node
RECURSIVE getMemoryUsage(_)
RECURSIVE MemoryOfChildren(_)
MemoryOfChildren(children) ==
  IF children = <<>> THEN 0
  ELSE getMemoryUsage(Head(children)) + MemoryOfChildren(Tail(children))

getMemoryUsage(node) == 1 + MemoryOfChildren(node.children)

\* ForwardIndex::getStorageSize, in units of one for the map and one per entry
getStorageSize(records) == 1 + Cardinality(DOMAIN records)

\* milliseconds the load took
LoadTime == 7

----------------------------------------------------------------------------
(* Direct use of the trie: a sequence of insert calls *)

TrieAlphabet == {"A", "B"}
TrieTerms == SeqsOf(TrieAlphabet, 0, MaxTermLen)
TrieIds == 1..NumIds
Prefixes == SeqsOf(TrieAlphabet, 1, MaxTermLen + 1)

\* RadixTreeIndex as constructed
TrieEmpty ==
  /\ root_ = RadixNode(<<>>, <<>>)
  /\ term_count_ = 0
  /\ inserted = {}

\* DataNode as constructed, no search made
NodeFresh ==
  /\ forward_index_ = <<>>
  /\ dn_state = "Uninitialized"
  /\ query_terms = <<>>
  /\ search_results = <<>>
  /\ searched = FALSE
  /\ stats_ = ZeroStatistics
  /\ init_result = "none"

\* no Data Node process
ProcessAbsent ==
  /\ main_pc = "none"
  /\ g_shutdown_requested = 0
  /\ g_server = "null"
  /\ exit_code = -1
  /\ pending_records = <<>>
  /\ signals_sent = 0
  /\ requests = <<>>
  /\ in_flight = {}

\* no string under normalization
NormalizerIdle ==
  /\ norm_input = <<>>
  /\ norm_text = <<>>
  /\ norm_calls = 0

\* no parser of its own, no file named
CsvAbsent ==
  /\ csv_file = NoFile
  /\ csv_records = <<>>
  /\ csv_kept = <<>>
  /\ success_count_ = 0
  /\ error_count_ = 0
  /\ csv_pc = "none"

\* no Gateway in the picture
GatewayAbsent ==
  /\ connections_ = <<>>
  /\ gw_terms = <<>>
  /\ payload = <<>>
  /\ rpc = <<>>
  /\ settle_order = <<>>
  /\ gw_pc = "none"
  /\ shard_results = <<>>
  /\ successful_count = 0
  /\ failed_count = 0
  /\ timeout_count = 0
  /\ max_results = 0
  /\ ranked_results = <<>>
  /\ response = NoResponse
  /\ request_body = NoBody

TrieInit == TrieEmpty /\ NodeFresh /\ NormalizerIdle /\ GatewayAbsent /\ CsvAbsent /\ ProcessAbsent

\* RadixTreeIndex::insert(term, address_id)
Insert ==
  \E term \in TrieTerms, address_id \in TrieIds :
    /\ term_count_ < MaxInserts
    /\ root_' = insert(root_, term, address_id)
    /\ term_count_' = IF term = <<>> THEN term_count_ ELSE term_count_ + 1
    /\ inserted' = IF term = <<>> THEN inserted ELSE inserted \cup {<<term, address_id>>}
    /\ UNCHANGED <<nodeVars, gwVars, csvVars, procVars, normVars>>

TrieNext == Insert

SpecTrie == TrieInit /\ [][TrieNext]_vars

----------------------------------------------------------------------------
(* AddressNormalizer::normalize applied to a string and to its own result *)

TextAlphabet == {" ", "\t", "a", "B", "1"}

NormalizeInit ==
  /\ TrieEmpty /\ NodeFresh /\ GatewayAbsent /\ CsvAbsent /\ ProcessAbsent
  /\ norm_input \in SeqsOf(TextAlphabet, 0, MaxTextLen)
  /\ norm_text = norm_input
  /\ norm_calls = 0

\* text = normalizer.normalize(text)
Normalize ==
  /\ norm_calls < MaxNormalizeCalls
  /\ norm_text' = normalize(norm_text)
  /\ norm_calls' = norm_calls + 1
  /\ UNCHANGED norm_input
  /\ UNCHANGED <<trieVars, nodeVars, gwVars, csvVars, procVars>>

NormalizeNext == Normalize

SpecNormalize == NormalizeInit /\ [][NormalizeNext]_vars

----------------------------------------------------------------------------
(* The Data Node: initialize once, then serve searches *)

\* the HASH column of the rows: two values, so that rows can share a hash
Hashes == {1, 2}

Streets == {<<"A">>, <<"a", " ", "B">>}

\* number, city and postcode of a row: nothing but the street; number and
\* city; number, city and postcode
Localities ==
  { [number |-> <<>>,    city |-> <<>>,    postcode |-> <<>>],
    [number |-> <<"1">>, city |-> <<"B">>, postcode |-> <<>>],
    [number |-> <<"1">>, city |-> <<"B">>, postcode |-> <<"2">>] }

\* the records CSVParser::parse may hand over: fields as they stand in the file
RecordPool ==
  {[hash |-> h, number |-> l.number, street |-> s, unit |-> <<>>,
    city |-> l.city, postcode |-> l.postcode] :
     h \in Hashes, s \in Streets, l \in Localities}

\* query terms: lower case, surrounding and repeated blanks, a second word,
\* a house number, and a structured address (it contains commas)
QueryTermPool ==
  { <<"a">>,
    <<" ", "A", " ", " ", "b", " ">>,
    <<"B">>,
    <<"1">>,
    <<"1", " ", "a", ",", "B", ",", "2">> }

DataNodeInit == TrieInit

\* "if (records.empty())": initialize gives up
NoValidRecordsNever(records) == FALSE

NoValidRecords(records) == records = <<>>

\* what DataNode::search leaves of the statistics: it assigns no member
StatisticsAfterSearchCounting(stats) == [stats EXCEPT !.total_records = @ + 1]

StatisticsAfterSearch(stats) == stats

\* DataNode::initialize from the point where the parser has returned records
InitializeWith(records) ==
  /\ dn_state = "Uninitialized"
  /\ IF NoValidRecords(records)
     THEN /\ dn_state' = "Failed"
          /\ init_result' = "false"
          /\ UNCHANGED <<root_, term_count_, inserted, forward_index_, stats_>>
     ELSE LET built == buildIndexes([root |-> root_, count |-> term_count_,
                                     ins |-> inserted, forward |-> forward_index_],
                                    records)
          IN /\ root_' = built.root
             /\ term_count_' = built.count
             /\ inserted' = built.ins
             /\ forward_index_' = built.forward
             /\ stats_' = [total_records |-> Len(records),
                           radix_tree_memory |-> getMemoryUsage(built.root),
                           forward_index_size |-> getStorageSize(built.forward),
                           load_time |-> LoadTime]
             /\ dn_state' = "Ready"
             /\ init_result' = "true"
  /\ UNCHANGED <<query_terms, search_results, searched>>
  /\ UNCHANGED gwVars

\* DataNode::initialize, given what the parser returned
Initialize ==
  \E records \in SeqsOf(RecordPool, 0, MaxRecords) :
    /\ InitializeWith(records)
    /\ UNCHANGED <<csvVars, procVars, normVars>>

\* DataNode::search(terms).  A search changes neither index, so one observed
\* call per behaviour reaches every (indexes, query) combination.
SearchFor(terms) ==
  /\ dn_state # "Uninitialized"
  /\ ~searched
  /\ searched' = TRUE
  /\ query_terms' = terms
  /\ \E matching_ids \in findMatchingIds(root_, terms) :
       search_results' = Materialize(forward_index_, matching_ids)
  /\ UNCHANGED <<root_, term_count_, inserted, forward_index_, dn_state,
                 stats_, init_result>>
  /\ UNCHANGED <<gwVars, csvVars, procVars, normVars>>

Search == \E terms \in SeqsOf(QueryTermPool, 0, MaxQueryTerms) : SearchFor(terms)

DataNodeNext == Initialize \/ Search

SpecDataNode == DataNodeInit /\ [][DataNodeNext]_vars

\* Queries that come in groups equal after normalize: letter case, blanks
\* around and between the words, one term and two, and structured addresses
\* with and without a blank before their first comma
VariantQueries ==
  { << <<"a">> >>,
    << <<" ", "A", " ">> >>,
    << <<"a", " ", "B">> >>,
    << <<"A", " ", " ", "b", " ">> >>,
    << <<"a">>, <<"1">> >>,
    << <<"A", " ">>, <<" ", "1">> >>,
    << <<"1", " ", "a", ",", "B">> >>,
    << <<" ", "1", " ", " ", "A", ",", "b", " ">> >>,
    << <<",", "1", " ", "a", ",", "B">> >>,
    << <<" ", ",", "1", " ", "a", ",", "B">> >> }

SearchVariant == \E terms \in VariantQueries : SearchFor(terms)

VariantNext == Initialize \/ SearchVariant

SpecVariants == DataNodeInit /\ [][VariantNext]_vars

\* Structured address queries: all four parts; a postcode no record has; no
\* postcode; a city no record has; the first part alone; no street; no
\* number and no street
StructuredQueries ==
  { << <<"1", " ", "a", ",", "B", ",", "2">> >>,
    << <<"1", " ", "a", ",", "B", ",", "3">> >>,
    << <<"1", " ", "a", ",", "B">> >>,
    << <<"1", " ", "a", ",", "C">> >>,
    << <<"1", " ", "a", ",">> >>,
    << <<"1", ",", "B">> >>,
    << <<",">> >> }

SearchStructured == \E terms \in StructuredQueries : SearchFor(terms)

StructuredNext == Initialize \/ SearchStructured

SpecStructured == DataNodeInit /\ [][StructuredNext]_vars

----------------------------------------------------------------------------
(* Loading a shard file: a parser of its own, and a Data Node *)

MaxLines == 2         \* lines of a shard file after the header

RECURSIVE JoinWithComma(_)
JoinWithComma(fields) ==
  IF fields = <<>> THEN <<>>
  ELSE IF Len(fields) = 1 THEN fields[1]
  ELSE fields[1] \o <<",">> \o JoinWithComma(Tail(fields))

\* LON,LAT,NUMBER,STREET,UNIT,CITY,DISTRICT,REGION,POSTCODE,ID,HASH
HeaderLine ==
  JoinWithComma(<< <<"L", "O", "N">>, <<"L", "A", "T">>, <<"N">>, <<"S">>, <<"U">>,
                   <<"C">>, <<"D">>, <<"R">>, <<"P">>, <<"I">>, <<"H">> >>)

\* a line LON,LAT,1,A,,B,,,2,,HASH
Row(lon, lat, hash) ==
  JoinWithComma(<<lon, lat, <<"1">>, <<"A">>, <<>>, <<"B">>, <<>>, <<>>, <<"2">>, <<>>, hash>>)

\* lines a shard file can hold: well-formed rows (one with a quoted street
\* holding a comma and the HASH of the first row, one with a fraction and a
\* sign), blank lines, a short
\* row, rows whose LON, LAT or HASH is no number, is a number followed by
\* something else, is out of range or is left empty
LinePool ==
  { Row(<<"1">>, <<"2">>, <<"1">>),
    Row(<<"-", "1", ".", "5">>, <<"9", "0">>, <<"2", "A">>),
    JoinWithComma(<< <<"1">>, <<"2">>, <<>>, <<"\"", "a", ",", "B", "\"">>, <<>>, <<>>,
                     <<>>, <<>>, <<>>, <<>>, <<"1">> >>),
    <<>>,
    <<" ", " ">>,
    JoinWithComma(<< <<"1">>, <<"2">>, <<"1">>, <<"A">>, <<>>, <<"B">>, <<"1">> >>),
    Row(<<"G">>, <<"2">>, <<"1">>),
    Row(<<"1">>, <<>>, <<"1">>),
    Row(<<"1", "G">>, <<"2">>, <<"1">>),
    Row(<<"1", "8", "1">>, <<"2">>, <<"1">>),
    Row(<<"1">>, <<"-", "9", "0", ".", "5">>, <<"1">>),
    Row(<<"1">>, <<"2">>, <<"G">>),
    Row(<<"1">>, <<"2">>, <<"1", "G">>),
    Row(<<"1">>, <<"2">>, <<>>),
    Row(<<"1">>, <<"2">>, <<"1", "0", "0", "0", "0", "0", "0", "0", "0",
                            "0", "0", "0", "0", "0", "0", "0", "0">>) }

\* what the path can name: nothing that opens, an empty file, or a header
\* followed by lines
Files ==
  {NoFile, FileOf(<<>>)}
  \cup {FileOf(<<HeaderLine>> \o lines) : lines \in SeqsOf(LinePool, 0, MaxLines)}

\* queries put to the loaded node
LoadQueries == { << <<"A">> >>, << <<"b">>, <<"2">> >>, << <<"1", " ", "A", ",", "B">> >> }

LoadInit ==
  /\ TrieEmpty /\ NodeFresh /\ NormalizerIdle /\ GatewayAbsent /\ ProcessAbsent
  /\ csv_file \in Files
  /\ csv_records = <<>>
  /\ csv_kept = <<>>
  /\ success_count_ = 0
  /\ error_count_ = 0
  /\ csv_pc = "start"

\* CSVParser parser; parser.parse(path)
Parse ==
  /\ csv_pc = "start"
  /\ LET parsed == parse(csv_file, success_count_, error_count_)
     IN /\ csv_records' = parsed.records
        /\ csv_kept' = parsed.kept
        /\ success_count_' = parsed.success_count
        /\ error_count_' = parsed.error_count
  /\ csv_pc' = "parsed"
  /\ UNCHANGED csv_file
  /\ UNCHANGED <<trieVars, nodeVars, gwVars, procVars, normVars>>

\* DataNode::initialize on the file at data_file_path_
Load ==
  /\ InitializeWith(parse(csv_file, 0, 0).records)
  /\ UNCHANGED <<csvVars, procVars, normVars>>

\* DataNode::search on the node, loaded or not
SearchLoaded == \E terms \in LoadQueries : SearchFor(terms)

LoadNext == Parse \/ Load \/ SearchLoaded

SpecLoad == LoadInit /\ [][LoadNext]_vars

\* what a later parse call on the same parser is given: a path that does not
\* open, an empty file, a file with one well-formed row, a file with one
\* malformed row
LaterFiles ==
  { NoFile,
    FileOf(<<>>),
    FileOf(<<HeaderLine, Row(<<"1">>, <<"2">>, <<"1">>)>>),
    FileOf(<<HeaderLine, Row(<<"G">>, <<"2">>, <<"1">>)>>) }

\* parser.parse(another path) on the parser that has parsed before
ParseAgain ==
  /\ csv_pc = "parsed"
  /\ \E file \in LaterFiles :
       LET parsed == parse(file, success_count_, error_count_)
       IN /\ csv_file' = file
          /\ csv_records' = parsed.records
          /\ csv_kept' = parsed.kept
          /\ success_count_' = parsed.success_count
          /\ error_count_' = parsed.error_count
  /\ UNCHANGED csv_pc
  /\ UNCHANGED <<trieVars, nodeVars, gwVars, procVars, normVars>>

ReparseNext == Parse \/ ParseAgain

SpecReparse == LoadInit /\ [][ReparseNext]_vars

----------------------------------------------------------------------------
(* The Data Node process: main, its signal handler, the gRPC server *)

MaxSignals == 1       \* SIGINT / SIGTERM deliveries explored
MaxRequests == 2      \* Search RPCs the server accepts

EXIT_SUCCESS == 0
EXIT_FAILURE == 1

\* shard files the process is started on: none that opens, a header alone,
\* one row, two rows, a malformed row before a row
ProcessFiles ==
  { NoFile,
    FileOf(<<HeaderLine>>),
    FileOf(<<HeaderLine, Row(<<"1">>, <<"2">>, <<"1">>)>>),
    FileOf(<<HeaderLine, Row(<<"1">>, <<"2">>, <<"1">>),
             Row(<<"-", "1", ".", "5">>, <<"9", "0">>, <<"2", "A">>)>>),
    FileOf(<<HeaderLine, Row(<<"G">>, <<"2">>, <<"1">>), Row(<<"1">>, <<"2">>, <<"2">>)>>) }

\* the query terms of the Search RPCs
ProcessQueries == { << <<"A">> >>, << <<"a">>, <<"2">> >> }

\* main() with both signal handlers installed, about to create the DataNode
ProcessInit ==
  /\ TrieEmpty /\ NodeFresh /\ NormalizerIdle /\ GatewayAbsent
  /\ csv_file \in ProcessFiles
  /\ csv_records = <<>>
  /\ csv_kept = <<>>
  /\ success_count_ = 0
  /\ error_count_ = 0
  /\ csv_pc = "none"
  /\ main_pc = "initialize"
  /\ g_shutdown_requested = 0
  /\ g_server = "null"
  /\ exit_code = -1
  /\ pending_records = <<>>
  /\ signals_sent = 0
  /\ requests = <<>>
  /\ in_flight = {}

\* whether main may call runServer
MayRunServerWhileBuilding(pc) == pc \in {"building", "initialized"}

MayRunServer(pc) == pc = "initialized"

\* data_node->initialize() up to buildIndexes; main returns EXIT_FAILURE when
\* it returns false
BeginInitialize ==
  /\ main_pc = "initialize"
  /\ LET records == parse(csv_file, 0, 0).records
     IN IF NoValidRecords(records)
        THEN /\ init_result' = "false"
             /\ dn_state' = "Failed"
             /\ main_pc' = "exited"
             /\ exit_code' = EXIT_FAILURE
             /\ UNCHANGED pending_records
        ELSE /\ pending_records' = records
             /\ main_pc' = "building"
             /\ UNCHANGED <<init_result, dn_state, exit_code>>
  /\ UNCHANGED <<root_, term_count_, inserted, forward_index_, stats_,
                 query_terms, search_results, searched>>
  /\ UNCHANGED <<g_shutdown_requested, g_server, signals_sent, requests, in_flight>>
  /\ UNCHANGED <<gwVars, csvVars, normVars>>

\* one pass of the loop of buildIndexes
IndexRecord ==
  /\ main_pc = "building"
  /\ pending_records # <<>>
  /\ LET built == buildIndexes([root |-> root_, count |-> term_count_,
                                ins |-> inserted, forward |-> forward_index_],
                               <<Head(pending_records)>>)
     IN /\ root_' = built.root
        /\ term_count_' = built.count
        /\ inserted' = built.ins
        /\ forward_index_' = built.forward
  /\ pending_records' = Tail(pending_records)
  /\ UNCHANGED <<dn_state, query_terms, search_results, searched, stats_, init_result>>
  /\ UNCHANGED <<main_pc, g_shutdown_requested, g_server, exit_code, signals_sent,
                 requests, in_flight>>
  /\ UNCHANGED <<gwVars, csvVars, normVars>>

\* the end of initialize: the statistics, return true
FinishInitialize ==
  /\ main_pc = "building"
  /\ pending_records = <<>>
  /\ stats_' = [total_records |-> Len(parse(csv_file, 0, 0).records),
                radix_tree_memory |-> getMemoryUsage(root_),
                forward_index_size |-> getStorageSize(forward_index_),
                load_time |-> LoadTime]
  /\ init_result' = "true"
  /\ dn_state' = "Ready"
  /\ main_pc' = "initialized"
  /\ UNCHANGED <<root_, term_count_, inserted, forward_index_,
                 query_terms, search_results, searched>>
  /\ UNCHANGED <<g_shutdown_requested, g_server, exit_code, pending_records,
                 signals_sent, requests, in_flight>>
  /\ UNCHANGED <<gwVars, csvVars, normVars>>

\* runServer up to g_server->Wait(): BuildAndStart gives the server, or
\* nothing when the port cannot be bound, and then main returns EXIT_SUCCESS
RunServer ==
  /\ MayRunServer(main_pc)
  /\ \/ /\ g_server' = "running"
        /\ main_pc' = "waiting"
        /\ UNCHANGED exit_code
     \/ /\ main_pc' = "exited"
        /\ exit_code' = EXIT_SUCCESS
        /\ UNCHANGED g_server
  /\ UNCHANGED <<g_shutdown_requested, pending_records, signals_sent, requests, in_flight>>
  /\ UNCHANGED <<trieVars, nodeVars, gwVars, csvVars, normVars>>

\* signalHandler: SIGINT or SIGTERM is delivered
SignalHandler ==
  /\ main_pc # "exited"
  /\ signals_sent < MaxSignals
  /\ signals_sent' = signals_sent + 1
  /\ g_shutdown_requested' = 1
  /\ g_server' = IF g_server # "null" THEN "shutdown" ELSE g_server
  /\ UNCHANGED <<main_pc, exit_code, pending_records, requests, in_flight>>
  /\ UNCHANGED <<trieVars, nodeVars, gwVars, csvVars, normVars>>

\* the running server accepts a Search RPC
AcceptRequest ==
  /\ g_server = "running"
  /\ Len(requests) < MaxRequests
  /\ \E terms \in ProcessQueries :
       requests' = Append(requests, [terms |-> terms, results |-> <<>>])
  /\ in_flight' = in_flight \cup {Len(requests) + 1}
  /\ UNCHANGED <<main_pc, g_shutdown_requested, g_server, exit_code, pending_records,
                 signals_sent>>
  /\ UNCHANGED <<trieVars, nodeVars, gwVars, csvVars, normVars>>

\* DataNodeServiceImpl::Search on a server thread: node_->search(query_terms)
ServeSearch(i) ==
  /\ i \in in_flight
  /\ \E matching_ids \in findMatchingIds(root_, requests[i].terms) :
       requests' = [requests EXCEPT ![i].results =
                      Materialize(forward_index_, matching_ids)]
  /\ in_flight' = in_flight \ {i}
  /\ stats_' = StatisticsAfterSearch(stats_)
  /\ UNCHANGED <<main_pc, g_shutdown_requested, g_server, exit_code, pending_records,
                 signals_sent>>
  /\ UNCHANGED <<forward_index_, dn_state, query_terms, search_results, searched,
                 init_result>>
  /\ UNCHANGED <<trieVars, gwVars, csvVars, normVars>>

\* g_server->Wait() returns once Shutdown() was called and the RPCs in
\* flight have completed; main returns EXIT_SUCCESS
WaitReturns ==
  /\ main_pc = "waiting"
  /\ g_server = "shutdown"
  /\ in_flight = {}
  /\ main_pc' = "exited"
  /\ exit_code' = EXIT_SUCCESS
  /\ UNCHANGED <<g_shutdown_requested, g_server, pending_records, signals_sent, requests, in_flight>>
  /\ UNCHANGED <<trieVars, nodeVars, gwVars, csvVars, normVars>>

ProcessNext ==
  \/ BeginInitialize
  \/ IndexRecord
  \/ FinishInitialize
  \/ RunServer
  \/ SignalHandler
  \/ AcceptRequest
  \/ \E i \in in_flight : ServeSearch(i)
  \/ WaitReturns

SpecProcess == ProcessInit /\ [][ProcessNext]_vars

\* The steps of main and of the server threads, each told by the part of the
\* state it always changes: these are the steps the scheduler owes
InitializeProgress ==
  /\ main_pc = "initialize"
  /\ main_pc' \in {"building", "exited"}

IndexProgress ==
  /\ main_pc = "building"
  /\ pending_records # <<>>
  /\ pending_records' = Tail(pending_records)

FinishProgress ==
  /\ main_pc = "building"
  /\ pending_records = <<>>
  /\ main_pc' = "initialized"

ServeProgress(i) ==
  /\ i \in in_flight
  /\ in_flight' = in_flight \ {i}

\* main and the server threads are scheduled; signals and requests come as
\* they come.  Under ProcessNext a step of InitializeProgress that changes
\* main_pc is a step of BeginInitialize, and likewise IndexProgress of
\* IndexRecord, FinishProgress of FinishInitialize and ServeProgress(i) of
\* ServeSearch(i).
FairSpecProcess ==
  /\ ProcessInit /\ [][ProcessNext]_vars
  /\ WF_main_pc(InitializeProgress)
  /\ WF_pending_records(IndexProgress)
  /\ WF_main_pc(FinishProgress)
  /\ WF_vars(RunServer)
  /\ \A i \in 1..MaxRequests : WF_in_flight(ServeProgress(i))
  /\ WF_vars(WaitReturns)

----------------------------------------------------------------------------
(* The Gateway handling one validated findAddress request *)

MaxNodes == 2         \* data nodes a gateway configuration can name

\* AddressRecord messages as a Data Node returns them
AddressRecord(hash, number, street, unit, city, postcode) ==
  [hash |-> hash, number |-> number, street |-> street, unit |-> unit,
   city |-> city, postcode |-> postcode]

r1 == AddressRecord(1, <<"1">>, <<"A">>, <<>>, <<"C">>, <<>>)
r2 == AddressRecord(2, <<"1">>, <<"B">>, <<>>, <<"C">>, <<>>)

\* what a successful Search RPC can carry
ShardAnswers == {<<>>, <<r1>>, <<r2>>, <<r1, r2>>}

\* how the RPC to one data node can end
Payloads ==
  {[kind |-> k, records |-> <<>>] : k \in {"rpc_error", "timeout", "exception", "future_exc"}}
  \cup {[kind |-> "ok", records |-> a] : a \in ShardAnswers}

\* config_.data_nodes as the gateway's main builds it: the nodes 0, 1, ... in
\* that order, each present only if an address is configured for it
RECURSIVE SubConfigs(_)
SubConfigs(n) ==
  IF n = 0 THEN {<<>>}
  ELSE SubConfigs(n - 1) \cup {Append(c, n - 1) : c \in SubConfigs(n - 1)}

Configs == SubConfigs(MaxNodes) \ {<<>>}

\* query_terms as the handler splits the address keyword
GatewayTerms == {<< <<"C">> >>, << <<"A">>, <<"C">> >>}

\* GatewayServer after initialize(), a validated request arriving
GatewayInit ==
  /\ TrieEmpty /\ NodeFresh /\ NormalizerIdle /\ CsvAbsent /\ ProcessAbsent
  /\ connections_ \in Configs
  /\ gw_terms \in GatewayTerms
  /\ payload \in [1..Len(connections_) -> Payloads]
  /\ rpc = [i \in 1..Len(connections_) |-> "idle"]
  /\ settle_order = <<>>
  /\ gw_pc = "launch"
  /\ shard_results = <<>>
  /\ successful_count = 0
  /\ failed_count = 0
  /\ timeout_count = 0
  /\ max_results = kHttpMaxResults
  /\ ranked_results = <<>>
  /\ response = NoResponse
  /\ request_body = Body(TRUE, TRUE, TRUE, JoinWithSpace(gw_terms))

dnVars == <<root_, term_count_, inserted, forward_index_, dn_state,
            query_terms, search_results, searched, stats_, init_result,
            csv_file, csv_records, csv_kept, success_count_, error_count_, csv_pc>>

\* queryAllDataNodes, the launching loop: std::async starts the task of the
\* next connection
Launch ==
  /\ gw_pc = "launch"
  /\ \E i \in 1..Len(connections_) :
       /\ rpc[i] = "idle"
       /\ \A j \in 1..(i - 1) : rpc[j] # "idle"
       /\ rpc' = [rpc EXCEPT ![i] = "running"]
       /\ gw_pc' = IF i = Len(connections_) THEN "collect" ELSE "launch"
  /\ UNCHANGED <<connections_, gw_terms, payload, settle_order, shard_results,
                 successful_count, failed_count, timeout_count, max_results,
                 ranked_results, response, request_body>>
  /\ UNCHANGED <<dnVars, procVars, normVars>>

\* the task of connection i ends: queryDataNode returns (an answer, an RPC
\* error, the deadline) or an exception is stored in the future
RpcSettle(i) ==
  /\ rpc[i] = "running"
  /\ rpc' = [rpc EXCEPT ![i] = "settled"]
  /\ settle_order' = Append(settle_order, i)
  /\ UNCHANGED <<connections_, gw_terms, payload, gw_pc, shard_results,
                 successful_count, failed_count, timeout_count, max_results,
                 ranked_results, response, request_body>>
  /\ UNCHANGED <<dnVars, procVars, normVars>>

\* queryAllDataNodes, one pass of the collecting loop
Collect ==
  /\ gw_pc = "collect"
  /\ Len(shard_results) < Len(connections_)
  /\ LET i == NextFuture(Len(shard_results), settle_order)
     IN /\ i \in 1..Len(connections_)
        /\ FutureReady(rpc, i)
        /\ IF payload[i].kind = "future_exc"
           THEN /\ shard_results' =
                     Append(shard_results, FutureExceptionResult(connections_[i]))
                /\ failed_count' = failed_count + 1
                /\ UNCHANGED <<successful_count, timeout_count>>
           ELSE LET result == queryDataNode(connections_[i], payload[i])
                IN /\ shard_results' = Append(shard_results, result)
                   /\ IF result.success
                      THEN /\ successful_count' = successful_count + 1
                           /\ UNCHANGED <<failed_count, timeout_count>>
                      ELSE /\ failed_count' = failed_count + 1
                           /\ timeout_count' =
                                IF IsTimeoutMessage(result.error_message)
                                THEN timeout_count + 1 ELSE timeout_count
                           /\ UNCHANGED successful_count
  /\ UNCHANGED <<connections_, gw_terms, payload, rpc, settle_order, gw_pc,
                 max_results, ranked_results, response, request_body>>
  /\ UNCHANGED <<dnVars, procVars, normVars>>

\* queryAllDataNodes returns results
Return ==
  /\ gw_pc = "collect"
  /\ Len(shard_results) = Len(connections_)
  /\ gw_pc' = "returned"
  /\ UNCHANGED <<connections_, gw_terms, payload, rpc, settle_order, shard_results,
                 successful_count, failed_count, timeout_count, max_results,
                 ranked_results, response, request_body>>
  /\ UNCHANGED <<dnVars, procVars, normVars>>

\* the rest of the findAddress handler: count, aggregate, answer
Respond ==
  /\ gw_pc = "returned"
  /\ LET successful_nodes ==
           Cardinality({i \in 1..Len(shard_results) : shard_results[i].success})
         failed_nodes ==
           Cardinality({i \in 1..Len(shard_results) : ~shard_results[i].success})
         ranked == aggregateAndRankResults(shard_results, gw_terms, kHttpMaxResults)
         status == StatusCode(successful_nodes, failed_nodes)
     IN /\ ranked_results' = ranked
        /\ response' =
             [status |-> status,
              results |-> ranked,
              result_count |-> Len(ranked),
              successful_nodes |-> successful_nodes,
              failed_nodes |-> failed_nodes,
              error |-> IF status = 503 THEN "All data nodes failed to respond" ELSE ""]
  /\ gw_pc' = "responded"
  /\ UNCHANGED <<connections_, gw_terms, payload, rpc, settle_order, shard_results,
                 successful_count, failed_count, timeout_count, max_results,
                 request_body>>
  /\ UNCHANGED <<dnVars, procVars, normVars>>

GatewayNext ==
  \/ Launch
  \/ \E i \in 1..Len(connections_) : RpcSettle(i)
  \/ Collect
  \/ Return
  \/ Respond

SpecGateway == GatewayInit /\ [][GatewayNext]_vars

\* the thread running queryAllDataNodes is scheduled, and so is every task;
\* the deadline ends every RPC
FairSpecGateway ==
  /\ GatewayInit /\ [][GatewayNext]_vars
  /\ WF_vars(Launch)
  /\ \A i \in 1..MaxNodes : WF_vars(i \in 1..Len(connections_) /\ RpcSettle(i))
  /\ WF_vars(Collect)
  /\ WF_vars(Return)

----------------------------------------------------------------------------
(* The Gateway receiving any findAddress request *)

\* request bodies: not JSON; no address; an address that is a number; the
\* empty string; blanks only; one word; two words; a structured address
Bodies ==
  { Body(FALSE, FALSE, FALSE, <<>>),
    Body(TRUE, FALSE, FALSE, <<>>),
    Body(TRUE, TRUE, FALSE, <<"1">>),
    Body(TRUE, TRUE, TRUE, <<>>),
    Body(TRUE, TRUE, TRUE, <<" ", " ">>),
    Body(TRUE, TRUE, TRUE, <<"C">>),
    Body(TRUE, TRUE, TRUE, <<" ", "A", " ", " ", "C">>),
    Body(TRUE, TRUE, TRUE, <<"1", " ", "A", ",", "C">>) }

\* how an RPC can end, in short
RequestPayloads ==
  {[kind |-> "ok", records |-> <<r1>>], [kind |-> "timeout", records |-> <<>>]}

RequestInit ==
  /\ TrieEmpty /\ NodeFresh /\ NormalizerIdle /\ CsvAbsent /\ ProcessAbsent
  /\ connections_ \in Configs
  /\ gw_terms = <<>>
  /\ payload \in [1..Len(connections_) -> RequestPayloads]
  /\ rpc = [i \in 1..Len(connections_) |-> "idle"]
  /\ settle_order = <<>>
  /\ gw_pc = "validate"
  /\ shard_results = <<>>
  /\ successful_count = 0
  /\ failed_count = 0
  /\ timeout_count = 0
  /\ max_results = kHttpMaxResults
  /\ ranked_results = <<>>
  /\ response = NoResponse
  /\ request_body \in Bodies

\* the findAddress handler from the request to the call of queryAllDataNodes
Validate ==
  /\ gw_pc = "validate"
  /\ LET early == EarlyResponse(request_body)
     IN IF early # NoResponse
        THEN /\ response' = early
             /\ gw_pc' = "responded"
             /\ UNCHANGED gw_terms
        ELSE /\ gw_terms' = QueryTermsOf(request_body.address)
             /\ gw_pc' = "launch"
             /\ UNCHANGED response
  /\ UNCHANGED <<connections_, payload, rpc, settle_order, shard_results,
                 successful_count, failed_count, timeout_count, max_results,
                 ranked_results, request_body>>
  /\ UNCHANGED <<dnVars, procVars, normVars>>

RequestNext == Validate \/ GatewayNext

SpecRequest == RequestInit /\ [][RequestNext]_vars

----------------------------------------------------------------------------
(* aggregateAndRankResults on its own: any result list, any max_results *)

MaxShardRecords == 2  \* records one DataNodeResult carries

g1 == AddressRecord(1, <<"1">>, <<"A">>, <<>>, <<"C">>, <<>>)
g2 == AddressRecord(2, <<"1">>, <<"A">>, <<"1">>, <<"C">>, <<>>)  \* g1's address, with a unit
g3 == AddressRecord(3, <<"2">>, <<"B">>, <<>>, <<"C">>, <<"2">>)
g4 == AddressRecord(4, <<>>, <<"A", "B">>, <<>>, <<>>, <<>>)

AggregatePool == {g1, g2, g3, g4}

\* DataNodeResult is a plain struct: whatever success says, records may be filled
AggregateResults ==
  {<<[shard_id |-> 0, success |-> s0, error_message |-> "", records |-> a0],
     [shard_id |-> 1, success |-> s1, error_message |-> "", records |-> a1]>> :
     s0 \in BOOLEAN, s1 \in BOOLEAN,
     a0 \in SeqsOf(AggregatePool, 0, MaxShardRecords),
     a1 \in SeqsOf(AggregatePool, 0, MaxShardRecords)}

AggregateTerms == {<< <<"A">> >>, << <<"B">>, <<"C">> >>}

MaxResultsChoices == {0, 1, 2, kHttpMaxResults}

AggregateInit ==
  /\ TrieEmpty /\ NodeFresh /\ NormalizerIdle /\ CsvAbsent /\ ProcessAbsent
  /\ connections_ = <<0, 1>>
  /\ gw_terms \in AggregateTerms
  /\ payload = <<>>
  /\ rpc = <<>>
  /\ settle_order = <<>>
  /\ gw_pc = "aggregate"
  /\ shard_results \in AggregateResults
  /\ successful_count = 0
  /\ failed_count = 0
  /\ timeout_count = 0
  /\ max_results \in MaxResultsChoices
  /\ ranked_results = <<>>
  /\ response = NoResponse
  /\ request_body = NoBody

Aggregate ==
  /\ gw_pc = "aggregate"
  /\ ranked_results' = aggregateAndRankResults(shard_results, gw_terms, max_results)
  /\ gw_pc' = "aggregated"
  /\ UNCHANGED <<connections_, gw_terms, payload, rpc, settle_order, shard_results,
                 successful_count, failed_count, timeout_count, max_results, response,
                 request_body>>
  /\ UNCHANGED <<dnVars, procVars, normVars>>

AggregateNext == Aggregate

SpecAggregate == AggregateInit /\ [][AggregateNext]_vars

\* Scoring one record per shard against queries of one, two and three terms:
\* an address whose postcode alone holds every term, and a complete address
\* whose street and city both hold two of the terms, beside the records above
p1 == AddressRecord(5, <<>>, <<>>, <<>>, <<>>, <<"A", "B", "C">>)
p2 == AddressRecord(6, <<"1">>, <<"A", " ", "B">>, <<>>, <<"A", "B">>, <<"2">>)

ScorePool == {g1, g2, g3, g4, p1, p2}

ScoreTerms ==
  { << <<"A">> >>, << <<"A">>, <<"B">> >>, << <<"C">>, <<"B">> >>,
    << <<"A">>, <<"B">>, <<"C">> >> }

ScoreInit ==
  /\ TrieEmpty /\ NodeFresh /\ NormalizerIdle /\ CsvAbsent /\ ProcessAbsent
  /\ connections_ = <<0, 1>>
  /\ gw_terms \in ScoreTerms
  /\ payload = <<>>
  /\ rpc = <<>>
  /\ settle_order = <<>>
  /\ gw_pc = "aggregate"
  /\ shard_results \in
       {<<[shard_id |-> 0, success |-> TRUE, error_message |-> "", records |-> <<a0>>],
          [shard_id |-> 1, success |-> TRUE, error_message |-> "", records |-> <<a1>>]>> :
          a0 \in ScorePool, a1 \in ScorePool}
  /\ successful_count = 0
  /\ failed_count = 0
  /\ timeout_count = 0
  /\ max_results = kHttpMaxResults
  /\ ranked_results = <<>>
  /\ response = NoResponse
  /\ request_body = NoBody

SpecScore == ScoreInit /\ [][AggregateNext]_vars

----------------------------------------------------------------------------
(* Claims about the radix trie (SpecTrie) *)

NonEmptyPrefixes(t) == {SubSeq(t, 1, k) : k \in 1..Len(t)}

\* C1: every inserted id is found by search under its own term and under every
\* non-empty prefix of that term, in every state of any insert sequence, so
\* no later insert (edge splits included) removes an earlier id
C1_InsertedIdsAreFound ==
  \A pair \in inserted :
    \A p \in NonEmptyPrefixes(pair[1]) : Contains(search(root_, p), pair[2])

\* an edge was split below the root: an intermediate node without ids of its
\* own has two children, and three inserts have been made
C1_Witness ==
  /\ Cardinality(inserted) = 3
  /\ \E i \in 1..Len(root_.children) :
       /\ root_.children[i].address_ids = <<>>
       /\ Len(root_.children[i].children) = 2

\* C2: every id that search(p) returns was inserted under a term beginning
\* with p; a prefix no inserted term begins with gives the empty list
C2_SearchReturnsOnlyMatches ==
  \A p \in Prefixes :
    \A id \in Range(search(root_, p)) :
      \E pair \in inserted : pair[2] = id /\ IsPrefixOf(p, pair[1])

\* some prefix finds two ids while another prefix, sharing its first
\* character with an inserted term, finds none
C2_Witness ==
  /\ \E p \in Prefixes : Len(search(root_, p)) = 2
  /\ \E p \in Prefixes :
       /\ search(root_, p) = <<>>
       /\ \E pair \in inserted : Head(pair[1]) = Head(p)

\* the trie the same insertions build when applied in one fixed order
RECURSIVE TrieOf(_)
TrieOf(pairs) ==
  IF pairs = {} THEN RadixNode(<<>>, <<>>)
  ELSE LET pair == CHOOSE x \in pairs : TRUE
       IN insert(TrieOf(pairs \ {pair}), pair[1], pair[2])

\* C20: whatever the order in which the (term, id) insertions were applied,
\* search returns for every prefix the list - the same ids in the same
\* order - that the trie built from them in one fixed order returns
C20_SearchIndependentOfInsertOrder ==
  \A p \in Prefixes : search(root_, p) = search(TrieOf(inserted), p)

\* two terms under one split edge, with different ids, and a third insert:
\* the common prefix finds the ids in the order of the edge labels
C20_Witness ==
  /\ term_count_ = MaxInserts
  /\ <<<<"A", "B">>, 1>> \in inserted
  /\ <<<<"A", "A">>, 2>> \in inserted
  /\ search(root_, <<"A">>) = <<2, 1>>

NoRepeats(seq) == \A i, j \in 1..Len(seq) : seq[i] = seq[j] => i = j

\* C21: search never returns the same id twice, whether the id was inserted
\* under several terms that share the prefix or the same (term, id) pair was
\* inserted more than once
C21_SearchReturnsNoIdTwice ==
  \A p \in Prefixes : NoRepeats(search(root_, p))

\* one id under two terms of one prefix, one of the pairs inserted twice: the
\* prefix finds the id once
C21_Witness ==
  /\ term_count_ = 3
  /\ inserted = {<<<<"A", "A">>, 1>>, <<<<"A", "B">>, 1>>}
  /\ search(root_, <<"A">>) = <<1>>

\* the four conditions on one node, and on every node below it
RECURSIVE WellFormed(_, _)
WellFormed(node, is_root) ==
  /\ is_root \/ node.edge_label # <<>>
  /\ \A i, j \in 1..Len(node.children) :
       i < j => /\ node.children[i].edge_label # <<>>
                /\ node.children[j].edge_label # <<>>
                /\ Head(node.children[i].edge_label) # Head(node.children[j].edge_label)
                /\ StrLess(node.children[i].edge_label, node.children[j].edge_label)
  /\ \A i, j \in 1..Len(node.address_ids) :
       i < j => node.address_ids[i] < node.address_ids[j]
  /\ \A i \in 1..Len(node.children) : WellFormed(node.children[i], FALSE)

\* C25: after any sequence of inserts, at every node no two children begin
\* with the same character, every edge label below the root is non-empty,
\* the children are in the order of their labels (also right after an edge
\* split has replaced a child in place) and the id list is strictly ascending
C25_TrieIsWellFormed == WellFormed(root_, TRUE)

\* an edge of the root was split in place while the root has a second child
C25_Witness ==
  /\ Len(root_.children) = 2
  /\ root_.children[1].edge_label = <<"A">>
  /\ root_.children[1].address_ids = <<>>
  /\ Len(root_.children[1].children) = 2
  /\ root_.children[2].edge_label = <<"B">>

----------------------------------------------------------------------------
(* Claims about DataNode::search (SpecDataNode) *)

\* the ids in the intersection, over all terms, of the trie prefix search of
\* the normalized term
PrefixIntersection(terms) ==
  {id \in Hashes : \A i \in 1..Len(terms) :
                     Contains(search(root_, normalize(terms[i])), id)}

\* the result holds exactly the stored records of the ids in ids, each once
ReturnsExactly(ids) ==
  /\ {r.hash : r \in Range(search_results)} = ids
  /\ Len(search_results) = Cardinality(ids)
  /\ \A r \in Range(search_results) :
       r.hash \in DOMAIN forward_index_ /\ forward_index_[r.hash] = r

\* C3 as stated: for every non-empty term list, whatever the terms contain,
\* search returns exactly the records of the prefix-search intersection
C3_Original ==
  (searched /\ query_terms # <<>>) => ReturnsExactly(PrefixIntersection(query_terms))

\* C3 as amended: the same, for every non-empty term list other than a single
\* term that contains a comma (which is run as a structured address query)
C3_SearchIsPrefixIntersection ==
  (searched /\ query_terms # <<>> /\ ~IsStructuredQuery(query_terms))
    => ReturnsExactly(PrefixIntersection(query_terms))

\* a two-term search whose first term alone matches two records and whose
\* intersection keeps one of them
C3_Witness ==
  /\ searched
  /\ Len(query_terms) = 2
  /\ Len(search(root_, normalize(query_terms[1]))) = 2
  /\ Len(search_results) = 1

\* a query term as the Gateway cuts it out of the address: one word
IsWord(term) ==
  /\ term # <<>>
  /\ \A k \in 1..Len(term) : ~isspace(term[k]) /\ term[k] # ","

\* the words of the normalized number, street, city and postcode of a record
WordsOfRecord(record) ==
  Range(Tokens(normalize(record.number), <<>>, <<>>))
  \cup Range(Tokens(normalize(record.street), <<>>, <<>>))
  \cup Range(Tokens(normalize(record.city), <<>>, <<>>))
  \cup Range(Tokens(normalize(record.postcode), <<>>, <<>>))

\* C23: a search for one or more words returns every stored record each of
\* whose normalized fields' words, for every query word, has one that the
\* query word is a prefix of
C23_EveryWordPrefixMatches ==
  (searched /\ query_terms # <<>> /\ \A i \in 1..Len(query_terms) : IsWord(query_terms[i]))
    => \A id \in DOMAIN forward_index_ :
         (\A i \in 1..Len(query_terms) :
            \E word \in WordsOfRecord(forward_index_[id]) :
              IsPrefixOf(normalize(query_terms[i]), word))
           => Contains(search_results, forward_index_[id])

\* the ids stored at a node or anywhere below it
RECURSIVE IdsBelow(_)
IdsBelow(node) ==
  Range(node.address_ids)
  \cup UNION {IdsBelow(node.children[i]) : i \in 1..Len(node.children)}

\* C29: after a successful initialize every id stored in the trie is a key
\* of the forward store, and a search returns as many records as there are
\* matching ids
C29_TrieIdsAreStored ==
  init_result = "true" =>
    /\ IdsBelow(root_) \subseteq DOMAIN forward_index_
    /\ searched =>
         \A matching_ids \in findMatchingIds(root_, query_terms) :
           Len(search_results) = Len(matching_ids)

\* a search on a loaded node whose two matching ids gave two records
C29_Witness ==
  /\ init_result = "true"
  /\ searched
  /\ Cardinality(IdsBelow(root_)) = 2
  /\ Len(search_results) = 2

----------------------------------------------------------------------------
(* Claims about normalize (SpecNormalize) *)

LowercaseLetters == {"a", "b"}

AllWhitespace(text) == \A i \in 1..Len(text) : isspace(text[i])

----------------------------------------------------------------------------
(* Claims about queries equal after normalize (SpecVariants) *)

\* term lists of the same length whose terms are pairwise equal after normalize
SameAfterNormalize(terms, other) ==
  /\ Len(terms) = Len(other)
  /\ \A i \in 1..Len(terms) : normalize(terms[i]) = normalize(other[i])

\* C18: a search returns the same set of records as the search for any term
\* list of the same length whose terms are pairwise equal to its own after
\* normalize
C18_SearchInvariantUnderNormalize ==
  searched =>
    \A other \in VariantQueries :
      SameAfterNormalize(query_terms, other) =>
        \A matching_ids \in findMatchingIds(root_, other) :
          Range(Materialize(forward_index_, matching_ids)) = Range(search_results)

----------------------------------------------------------------------------
(* Claims about loading a shard file (SpecLoad) *)

Parsed == csv_pc = "parsed"

\* the lines of the file that are neither the header nor blank
Rows ==
  {i \in 2..Len(csv_file.lines) : \E k \in 1..Len(csv_file.lines[i]) :
                                    csv_file.lines[i][k] # " "}

ValidRows == {i \in Rows : parseRecord(csv_file.lines[i]).has_value}

IsDecimalNumber(text) ==
  LET body == SkipSign(text)
      int_len == PrefixLenIn(body, DecDigits)
      after == substrFrom(body, int_len)
      frac_len == IF after # <<>> /\ Head(after) = "."
                  THEN PrefixLenIn(Tail(after), DecDigits) ELSE 0
  IN /\ int_len + frac_len > 0
     /\ Len(after) = (IF after # <<>> /\ Head(after) = "." THEN 1 + frac_len ELSE 0)

\* the whole of text is a base-16 number of at most 64 bits
IsHexNumber(text) ==
  /\ text # <<>>
  /\ \A k \in 1..Len(text) : text[k] \in HexDigits
  /\ Len(text) - PrefixLenIn(text, {"0"}) <= 16

\* a line the per-line contract calls malformed
Malformed(line) ==
  LET fields == splitCSVLine(line)
  IN \/ Len(fields) < 11
     \/ ~IsDecimalNumber(fields[1])
     \/ ~IsDecimalNumber(fields[2])
     \/ ~validateCoordinates(stod(fields[1]), stod(fields[2]))
     \/ ~IsHexNumber(fields[11])

\* C12: a data line with fewer than 11 fields, with a LON or LAT that is no
\* decimal number or lies outside [-180, 180] / [-90, 90], or with a HASH
\* that is no base-16 64-bit number, gives no record and is counted as an
\* error, and the lines after it are still read
C12_MalformedLinesDropped ==
  Parsed =>
    /\ \A k \in 1..Len(csv_kept) : ~Malformed(csv_kept[k])
    /\ error_count_ >= Cardinality({i \in Rows : Malformed(csv_file.lines[i])})
    /\ success_count_ + error_count_ = Cardinality(Rows)

----------------------------------------------------------------------------
(* Claims about the Data Node process (SpecProcess, FairSpecProcess) *)

Exited == main_pc = "exited"

AllRequestsDone == in_flight = {}

\* C14: a SIGINT or SIGTERM delivered at any moment after the handlers are
\* installed, the loading included, sets the shutdown flag and the process
\* eventually leaves its serving loop and exits, the requests in flight
\* having completed
C14_SignalLeadsToExit ==
  /\ [](signals_sent > 0 => g_shutdown_requested = 1)
  /\ [](Exited => AllRequestsDone)
  /\ (g_shutdown_requested = 1 ~> Exited)

\* C15: the server exists, and requests are served, only once initialize has
\* returned true with every record indexed; the indexes are written only
\* while there is no server; when initialize returns false no server is
\* ever started and the process exits with a non-zero code
C15_ServesOnlyAfterInitialize ==
  /\ []((g_server # "null" \/ requests # <<>>)
          => (init_result = "true" /\ pending_records = <<>>))
  /\ [][(<<root_, term_count_, forward_index_>>' # <<root_, term_count_, forward_index_>>)
          => (g_server = "null" /\ requests = <<>>)]_vars
  /\ [](init_result = "false" => (g_server = "null" /\ requests = <<>>))
  /\ (init_result = "false" ~> (Exited /\ exit_code # EXIT_SUCCESS))

\* a request in flight on a node that loaded two records
C15_Witness ==
  /\ g_server = "running"
  /\ 1 \in in_flight
  /\ stats_.total_records = 2
  /\ Cardinality(DOMAIN forward_index_) = 2

\* what a search for terms returns when run on its own on the node as it is
SequentialResults(terms) ==
  {Materialize(forward_index_, matching_ids) :
     matching_ids \in findMatchingIds(root_, terms)}

\* C17: once initialize has returned, no search changes the trie, the forward
\* store, the term count or the statistics, however many searches run and
\* however they overlap, and every search returns what it returns when run
\* alone
C17_SearchChangesNothing ==
  /\ [][init_result = "true"
          => UNCHANGED <<root_, term_count_, forward_index_, stats_>>]_vars
  /\ [](\A i \in (1..Len(requests)) \ in_flight :
          requests[i].results \in SequentialResults(requests[i].terms))

\* two searches overlapped and both returned the record
C17_Witness ==
  /\ Len(requests) = 2
  /\ in_flight = {}
  /\ requests[1].results # <<>>
  /\ requests[2].results # <<>>
  /\ stats_.total_records = 2

----------------------------------------------------------------------------
(* Claims about the Gateway's fan-out and status policy (SpecGateway) *)

Responded == gw_pc = "responded"

Returned == gw_pc \in {"returned", "responded"}

AllSettled == \A i \in 1..Len(connections_) : rpc[i] = "settled"

\* the connections whose RPC ends with an answer
OkNodes == {i \in 1..Len(connections_) : payload[i].kind = "ok"}

\* C4: the response to a validated findAddress request counts the shards
\* that answered and those that did not, and its status is 200 when no shard
\* failed, 207 when some failed and some succeeded, 503 with the error field
\* when some failed and none succeeded
C4_StatusFollowsCounts ==
  Responded =>
    /\ response.successful_nodes = Cardinality(OkNodes)
    /\ response.failed_nodes = Len(connections_) - Cardinality(OkNodes)
    /\ response.failed_nodes = 0 => response.status = 200 /\ response.error = ""
    /\ (response.failed_nodes > 0 /\ response.successful_nodes > 0)
         => response.status = 207 /\ response.error = ""
    /\ (response.failed_nodes > 0 /\ response.successful_nodes = 0)
         => response.status = 503 /\ response.error # ""

C4_Witness ==
  /\ Responded
  /\ response.status = 207
  /\ response.successful_nodes = 1
  /\ response.failed_nodes = 1

\* C5: queryAllDataNodes has returned only when every launched RPC has
\* settled, however early some shard answered, and once every RPC has
\* settled it does return
C5_ReturnsWhenAllSettled ==
  /\ [](Returned => AllSettled)
  /\ (AllSettled ~> Returned)

\* the second shard settled first, and the call returned after both
C5_Witness ==
  /\ gw_pc = "returned"
  /\ settle_order = <<2, 1>>
  /\ Len(shard_results) = 2

\* C6: the list queryAllDataNodes returns has one result per configured
\* node, in configuration order, the i-th with the i-th node's shard_id,
\* whatever the outcomes; the successful and failed counts add up to the
\* number of nodes and the timeouts are among the failures
C6_OneResultPerNodeInOrder ==
  Returned =>
    /\ Len(shard_results) = Len(connections_)
    /\ \A i \in 1..Len(connections_) : shard_results[i].shard_id = connections_[i]
    /\ successful_count + failed_count = Len(connections_)
    /\ timeout_count <= failed_count
    /\ Responded =>
         /\ response.successful_nodes + response.failed_nodes = Len(connections_)
         /\ response.successful_nodes = successful_count
         /\ response.failed_nodes = failed_count

\* a future exception and a timeout, settled out of order
C6_Witness ==
  /\ gw_pc = "returned"
  /\ Len(connections_) = 2
  /\ payload[1].kind = "future_exc"
  /\ payload[2].kind = "timeout"
  /\ settle_order = <<2, 1>>
  /\ timeout_count = 1
  /\ failed_count = 2

\* the results the shards' payloads give when taken in configuration order
ConfigOrderResults ==
  [i \in 1..Len(connections_) |->
     IF payload[i].kind = "future_exc"
     THEN [shard_id |-> connections_[i], success |-> FALSE,
           error_message |-> "Future exception: what", records |-> <<>>]
     ELSE queryDataNode(connections_[i], payload[i])]

\* C7: the results of the response (records, shard tags, scores, order) are
\* a function of the configuration, the query and the shards' payloads: the
\* order in which the RPCs complete has no part in them
C7_ResultsIndependentOfCompletionOrder ==
  Responded =>
    response.results = aggregateAndRankResults(ConfigOrderResults, gw_terms, kHttpMaxResults)

\* the second shard answered first, and the two shards' records tie on score
C7_Witness ==
  /\ Responded
  /\ settle_order = <<2, 1>>
  /\ Len(response.results) = 2
  /\ response.results[1].shard_id = 0
  /\ response.results[2].shard_id = 1
  /\ response.results[1].relevance_score = response.results[2].relevance_score

C22_ForwardStoreHoldsEachRecord ==
  init_result = "true" =>
    LET records == parse(csv_file, 0, 0).records
    IN /\ \A i, j \in 1..Len(records) : records[i].hash = records[j].hash => i = j
       /\ \A id \in DOMAIN forward_index_ : forward_index_[id].hash = id
       /\ \A i \in 1..Len(records) :
            ForwardGet(forward_index_, records[i].hash) = <<records[i]>>
       /\ Cardinality(DOMAIN forward_index_) = stats_.total_records

\* a field in normalized form: upper case, trimmed, single-spaced
InNormalForm(text) == normalize(text) = text

FieldsInNormalForm(record) ==
  /\ InNormalForm(record.number)
  /\ InNormalForm(record.street)
  /\ InNormalForm(record.unit)
  /\ InNormalForm(record.city)
  /\ InNormalForm(record.postcode)

\* C24: every record the Data Node holds, and every record a search returns,
\* has its number, street, unit, city and postcode in normalized form
C24_RecordsHeldInNormalForm ==
  /\ \A id \in DOMAIN forward_index_ : FieldsInNormalForm(forward_index_[id])
  /\ \A i \in 1..Len(search_results) : FieldsInNormalForm(search_results[i])

\* C27: after any sequence of parse calls on one parser the success count
\* is the number of records the most recent call returned and the error
\* count the number of rows that call rejected, whatever the earlier calls
\* parsed and whether or not the most recent file opened
C27_CountersDescribeLastCall ==
  Parsed =>
    /\ success_count_ = Len(csv_records)
    /\ error_count_ = Cardinality(Rows \ ValidRows)

----------------------------------------------------------------------------
(* Claims about request validation (SpecRequest) *)

\* a body that is not JSON, lacks address, has an address that is no string,
\* is empty or holds no term
Rejectable(body) ==
  \/ ~body.valid_json
  \/ ~body.has_address
  \/ ~body.is_string
  \/ body.address = <<>>
  \/ \A k \in 1..Len(body.address) : body.address[k] = " "

\* C13: a findAddress request whose body is not JSON, has no address, has an
\* address that is not a string, is the empty string or is blank is answered
\* 400 with an error field, and no RPC is sent to any data node
C13_BadRequestsAnswered400 ==
  (gw_pc # "validate" /\ Rejectable(request_body)) =>
    /\ response.status = 400
    /\ response.error # ""
    /\ \A i \in 1..Len(connections_) : rpc[i] = "idle"

----------------------------------------------------------------------------
(* Claims about aggregateAndRankResults (SpecAggregate) *)

Aggregated == gw_pc = "aggregated"

AddressKey(record) == <<record.number, record.street, record.city, record.postcode>>

\* the records of the results that report success
SuccessfulRecords ==
  UNION {Range(shard_results[i].records) :
           i \in {j \in 1..Len(shard_results) : shard_results[j].success}}

\* C8: no two records of the output of aggregateAndRankResults have the same
\* (number, street, city, postcode), whichever shards they came from and
\* whatever their unit or hash
C8_NoDuplicateKeys ==
  Aggregated =>
    \A i, j \in 1..Len(ranked_results) :
      i # j => AddressKey(ranked_results[i].record) # AddressKey(ranked_results[j].record)

\* two shards returned the same address with different units; one is output
C8_Witness ==
  /\ Aggregated
  /\ shard_results[1].success /\ shard_results[2].success
  /\ g1 \in Range(shard_results[1].records)
  /\ g2 \in Range(shard_results[2].records)
  /\ max_results = kHttpMaxResults
  /\ Cardinality({i \in 1..Len(ranked_results) :
                    AddressKey(ranked_results[i].record) = AddressKey(g1)}) = 1

\* C9: the output has at most max_results records, in order of
\* non-increasing relevance_score, and no record left out by the truncation
\* scores higher than a record that was kept
C9_TopOfRanking ==
  Aggregated =>
    /\ Len(ranked_results) <= max_results
    /\ \A i \in 1..(Len(ranked_results) - 1) :
         ranked_results[i].relevance_score >= ranked_results[i + 1].relevance_score
    /\ \A record \in SuccessfulRecords :
         (\A i \in 1..Len(ranked_results) :
            AddressKey(ranked_results[i].record) # AddressKey(record))
         => \A i \in 1..Len(ranked_results) :
              calculateRelevanceScore(record, gw_terms) <= ranked_results[i].relevance_score

\* a truncation that dropped a record scoring strictly less than the kept ones,
\* from an input in which a lower score came first
C9_Witness ==
  /\ Aggregated
  /\ max_results = 2
  /\ Len(ranked_results) = 2
  /\ ranked_results[1].relevance_score > ranked_results[2].relevance_score
  /\ shard_results[1].success
  /\ Len(shard_results[1].records) > 0
  /\ calculateRelevanceScore(shard_results[1].records[1], gw_terms)
       < ranked_results[2].relevance_score
  /\ \A i \in 1..2 :
       AddressKey(ranked_results[i].record) # AddressKey(shard_results[1].records[1])

\* C10: every record of the output was returned by a shard whose result is
\* successful and carries that shard's shard_id, and the number of records
\* output is the smaller of max_results and the number of distinct
\* (number, street, city, postcode) among the successful shards' records
C10_OnlySuccessfulShardsContribute ==
  Aggregated =>
    /\ \A i \in 1..Len(ranked_results) :
         \E k \in 1..Len(shard_results) :
           /\ shard_results[k].success
           /\ shard_results[k].shard_id = ranked_results[i].shard_id
           /\ ranked_results[i].record \in Range(shard_results[k].records)
    /\ Len(ranked_results) =
         Min({max_results, Cardinality({AddressKey(record) : record \in SuccessfulRecords})})

\* one shard failed, the other returned two addresses, both are output
C10_Witness ==
  /\ Aggregated
  /\ ~shard_results[2].success
  /\ shard_results[2].records # <<>>
  /\ shard_results[1].success
  /\ Len(shard_results[1].records) = 2
  /\ Len(ranked_results) = 2
  /\ \A i \in 1..2 : ranked_results[i].shard_id = 0

\* the records of the successful results as entries, in shard-list order and
\* within a shard in the order the shard returned them
RECURSIVE EntriesInOrder(_)
EntriesInOrder(rs) ==
  IF rs = <<>> THEN <<>>
  ELSE (IF Head(rs).success
        THEN [k \in 1..Len(Head(rs).records) |->
                [record |-> Head(rs).records[k],
                 shard_id |-> Head(rs).shard_id,
                 relevance_score |-> calculateRelevanceScore(Head(rs).records[k], gw_terms)]]
        ELSE <<>>)
       \o EntriesInOrder(Tail(rs))

\* C26: the entry output for an address - record, shard_id and score together
\* - is, among the entries with that (number, street, city, postcode), the
\* one with the highest score, and among those with the highest score the
\* first in shard-list order
C26_KeepsFirstOfHighestScore ==
  Aggregated =>
    LET entries == EntriesInOrder(shard_results)
    IN \A i \in 1..Len(ranked_results) :
         LET same == {k \in 1..Len(entries) :
                        AddressKey(entries[k].record) = AddressKey(ranked_results[i].record)}
             best == {k \in same : \A m \in same :
                        entries[m].relevance_score <= entries[k].relevance_score}
         IN best # {} /\ ranked_results[i] = entries[Min(best)]

\* one address met again with an equal score (the first shard's entry stays),
\* another met again with a higher score (the second shard's entry replaces)
C26_Witness ==
  /\ Aggregated
  /\ shard_results[1].success /\ shard_results[2].success
  /\ shard_results[1].records = <<g1, g3>>
  /\ shard_results[2].records = <<g3, g2>>
  /\ max_results = kHttpMaxResults
  /\ Len(ranked_results) = 2
  /\ \E i \in 1..2 : ranked_results[i].record = g2 /\ ranked_results[i].shard_id = 1
  /\ \E i \in 1..2 : ranked_results[i].record = g3 /\ ranked_results[i].shard_id = 0

\* the number of query terms found in the street, city, postcode or number
MatchedTerms(record, terms) ==
  Cardinality({i \in 1..Len(terms) :
                 \/ Find(record.street, terms[i]) # npos
                 \/ Find(record.city, terms[i]) # npos
                 \/ Find(record.postcode, terms[i]) # npos
                 \/ Find(record.number, terms[i]) # npos})

\* C28: of two records scored for one query, the one that matches strictly
\* more of the query terms has the strictly higher relevance_score
C28_MoreMatchedTermsScoreHigher ==
  Aggregated =>
    \A i, j \in 1..Len(ranked_results) :
      MatchedTerms(ranked_results[i].record, gw_terms)
        > MatchedTerms(ranked_results[j].record, gw_terms)
      => ranked_results[i].relevance_score > ranked_results[j].relevance_score

----------------------------------------------------------------------------
(* Claims about structured address queries (SpecStructured) *)

\* the ids a structured query stands for: those under the most specific of
\* the three composite keys that has any match
MostSpecificMatch(root, term) ==
  LET parsed   == parseQuery(term)
      number   == normalize(parsed.number)
      street   == normalize(parsed.street)
      city     == normalize(parsed.city)
      postcode == normalize(parsed.postcode)
      number_street == number \o KEY_SEPARATOR \o street
      with_city     == number_street \o KEY_SEPARATOR \o city
      with_postcode == with_city \o KEY_SEPARATOR \o postcode
  IN IF number = <<>> \/ street = <<>> THEN <<>>
     ELSE IF city # <<>> /\ postcode # <<>> /\ search(root, with_postcode) # <<>>
     THEN search(root, with_postcode)
     ELSE IF city # <<>> /\ search(root, with_city) # <<>>
     THEN search(root, with_city)
     ELSE search(root, number_street)

\* C30: a one-element query whose term contains a comma returns the records
\* under the most specific composite key with any match, tried in the order
\* number+street+city+postcode, number+street+city, number+street; with an
\* empty number or street it returns nothing
C30_StructuredQueryMostSpecificKey ==
  (searched /\ Len(query_terms) = 1 /\ Contains(query_terms[1], ",")) =>
    search_results =
      Materialize(forward_index_, MostSpecificMatch(root_, query_terms[1]))

\* the key with the postcode matched nothing and the key without it gave one
\* of the two records that the number and street alone would give
C30_Witness ==
  /\ searched
  /\ query_terms = << <<"1", " ", "a", ",", "B", ",", "3">> >>
  /\ search(root_, <<"1", "|", "A", "|", "B", "|", "3">>) = <<>>
  /\ Len(search(root_, <<"1", "|", "A">>)) = 2
  /\ Len(search_results) = 1

====
